---- MODULE Spec2Model ----
(***************************************************************************)
(* DataGuard: the policy-gated negotiation, pricing and email-data path of *)
(* the browser extension.                                                  *)
(*                                                                         *)
(*   PolicyAgent (src/unnamed/part_002): negotiateRequest, recordRequest   *)
(*   background worker (src/extension/src/background.ts): the handlers of  *)
(*     UPDATE_USER_POLICY, GET_USER_POLICY, NEGOTIATE_REQUEST and          *)
(*     REQUEST_EMAIL_DATA, and the install listener                        *)
(*   X402PaymentService.validateWalletAddress (payments/x402-service.ts)   *)
(*   content script (src/extension/src/content.ts): the fetch interceptor *)
(*     with its approval prompt, window.DataGuard.requestEmailData and the *)
(*     recentRequests store; the worker's PROCESS_PAYMENT handler and its  *)
(*     paymentHistory store                                                *)
(*                                                                         *)
(* JavaScript values.  A value that may be undefined is a sequence of      *)
(* length at most one: <<>> is undefined (a field the object lacks), <<v>> *)
(* is the value v.  Money is counted in thousandths of a USDC (0.05 is     *)
(* 50), multipliers in tenths or hundredths, and products are exact.       *)
(* Instants and durations are counted in seconds.  Strings that the code   *)
(* inspects (wallet addresses) are sequences of                            *)
(* one-character strings.                                                  *)
(***************************************************************************)
EXTENDS Integers, Sequences, FiniteSets, TLC

VARIABLES
    userPolicy,      \* chrome.storage.local key 'userPolicy': <<>> or <<policy>>
    requestHistory,  \* PolicyAgent.requestHistory: predicateType -> requests
    now,             \* Date.now(), in seconds
    outcome,         \* the operation completed last: its request and its answer
    emailCalls,      \* the worker's REQUEST_EMAIL_DATA handlers, by caller
    negotiateCall,   \* the worker's NEGOTIATE_REQUEST handler
    intercepts,      \* the content script's intercepted fetch calls
    notification,    \* the fetch whose #dataguard-notification is in the page, or 0
    recentRequests,  \* chrome.storage.local key 'recentRequests', newest first
    payments,        \* the worker's PROCESS_PAYMENT handlers
    paymentHistory,  \* chrome.storage.local key 'paymentHistory', oldest first
    installation     \* the onInstalled listener: its position and what it read

\* The handlers in flight and what they store.
asyncVars ==
    <<emailCalls, negotiateCall, intercepts, notification, recentRequests,
      payments, paymentHistory, installation>>

vars == <<userPolicy, requestHistory, now, outcome, asyncVars>>

---------------------------------------------------------------------------
(* JavaScript values *)

Undefined == <<>>

Some(v) == <<v>>

\* The truthiness of a boolean that may be undefined.
Truthy(x) == x = <<TRUE>>

\* a || b on booleans that may be undefined.
JsOr(a, b) == IF Truthy(a) THEN a ELSE b

\* NaN, which Math.min returns when an argument is undefined.
NaN == <<>>

Min(a, b) == IF a <= b THEN a ELSE b

\* Math.min(a, b) of a number a and a number b that may be undefined.
MathMin(a, b) == IF b = Undefined THEN NaN ELSE Some(Min(a, b[1]))

\* Math.round(num / den) for den > 0: the nearest integer, halves toward
\* plus infinity.
MathRound(num, den) == (2 * num + den) \div (2 * den)

Rep(c, n) == [i \in 1..n |-> c]

---------------------------------------------------------------------------
(* Predicate types *)

PredicateTypes == {"subscription", "delivery", "purchase", "financial"}

\* A predicateType no switch of the code knows.
UnknownType == "other"

AllTypes == PredicateTypes \cup {UnknownType}

---------------------------------------------------------------------------
(* X402PaymentService *)

HexChars ==
    {"0", "1", "2", "3", "4", "5", "6", "7", "8", "9",
     "a", "b", "c", "d", "e", "f", "A", "B", "C", "D", "E", "F"}

AddressHexLength == 40

\* /^0x[a-fA-F0-9]{40}$/.test(address)
validateWalletAddress(address) ==
    /\ Len(address) = 2 + AddressHexLength
    /\ address[1] = "0"
    /\ address[2] = "x"
    /\ \A i \in 3..Len(address) : address[i] \in HexChars

---------------------------------------------------------------------------
(* Policies *)

\* The Policy fields the modelled code reads.  requestTimeout, facilitatorUrl,
\* network, lastUpdated and version are read by none of it.
Policy(g, allowed, rb, rpi, pricing, age, cnt, wallet, sender, subject) ==
    [globalDataSharing      |-> g,
     allowSubscriptionProof |-> Some("subscription" \in allowed),
     allowDeliveryProof     |-> Some("delivery" \in allowed),
     allowPurchaseProof     |-> Some("purchase" \in allowed),
     allowFinancialProof    |-> Some("financial" \in allowed),
     redactEmailBodies      |-> rb,
     redactPersonalInfo     |-> rpi,
     pricing                |-> pricing,
     maxEmailAge            |-> age,
     maxEmailsPerRequest    |-> cnt,
     walletAddress          |-> wallet,
     showSenderInfo         |-> sender,
     showSubjectInfo        |-> subject]

\* A default policy with sharing switched on.
getDefaultPolicy_sharing ==
    [globalDataSharing      |-> Some(TRUE),
     allowSubscriptionProof |-> Some(TRUE),
     allowDeliveryProof     |-> Some(TRUE),
     allowPurchaseProof     |-> Some(FALSE),
     allowFinancialProof    |-> Undefined,
     redactEmailBodies      |-> Some(TRUE),
     redactPersonalInfo     |-> Undefined,
     pricing                |-> Undefined,
     maxEmailAge            |-> Some(90),
     maxEmailsPerRequest    |-> Undefined,
     walletAddress          |-> Undefined,
     showSenderInfo         |-> Some(TRUE),
     showSubjectInfo        |-> Some(TRUE)]

\* getDefaultPolicy(): seven fields, the others are absent.
getDefaultPolicy ==
    [globalDataSharing      |-> Undefined,
     allowSubscriptionProof |-> Some(TRUE),
     allowDeliveryProof     |-> Some(TRUE),
     allowPurchaseProof     |-> Some(FALSE),
     allowFinancialProof    |-> Undefined,
     redactEmailBodies      |-> Some(TRUE),
     redactPersonalInfo     |-> Undefined,
     pricing                |-> Undefined,
     maxEmailAge            |-> Some(90),
     maxEmailsPerRequest    |-> Undefined,
     walletAddress          |-> Undefined,
     showSenderInfo         |-> Some(TRUE),
     showSubjectInfo        |-> Some(TRUE)]

\* getUserPolicy(): result.userPolicy || getDefaultPolicy()
getUserPolicy(stored) == IF stored = Undefined THEN getDefaultPolicy ELSE stored[1]

Pricing(s, d, p, f) ==
    Some([subscription |-> s, delivery |-> d, purchase |-> p, financial |-> f])

\* The prices the popup form starts with.
PopupPricing == Pricing(Some(50), Some(100), Some(250), Some(500))

WalletValid == <<"0", "x">> \o Rep("a", 20) \o Rep("F", 10) \o Rep("7", 10)

WalletShort == <<"0", "x">> \o Rep("a", 39)

WalletNotHex == <<"0", "x">> \o Rep("a", 39) \o <<"g">>

WalletEmpty == <<>>

---------------------------------------------------------------------------
(* Negotiation requests and results *)

\* A NegotiationRequest.  requesterId and requesterType are read by no code.
NegotiationRequest(type, maxAge, maxEmails, bodies, personal, ts) ==
    [predicateType |-> type,
     requestedData |-> [maxAge              |-> maxAge,
                        maxEmails           |-> maxEmails,
                        includeBodies       |-> bodies,
                        includePersonalInfo |-> personal],
     timestamp     |-> ts]

\* A NegotiationResult; a key the object literal leaves out is Undefined.
\* A reason is the sequence of the pieces of its template string.
NegotiationResult(accepted, finalPrice, adjustedPolicy, reason, counterOffer) ==
    [accepted       |-> accepted,
     finalPrice     |-> finalPrice,
     adjustedPolicy |-> adjustedPolicy,
     reason         |-> reason,
     counterOffer   |-> counterOffer]

ReasonGlobal == <<"Global data sharing is disabled">>

ReasonAccess(type) == <<"Access to ", type, " data is disabled">>

ReasonBodies == <<"Email body access requested but policy requires body redaction">>

ReasonPersonal ==
    <<"Personal information access requested but policy requires personal info redaction">>

\* The wallet denial without its text.
ReasonWallet_empty == <<>>

ReasonWallet == <<"Invalid wallet address configuration">>

---------------------------------------------------------------------------
(* PolicyAgent *)

OneHour == 60 * 60

\* The keys initializePricingStrategies() sets; the strategy records
\* themselves are never read.
pricingStrategies == {"subscription", "delivery", "purchase", "financial"}

isPredicateAllowed(predicateType, policy) ==
    CASE predicateType = "subscription" -> policy.allowSubscriptionProof
      [] predicateType = "delivery"     -> policy.allowDeliveryProof
      [] predicateType = "purchase"     -> policy.allowPurchaseProof
      [] predicateType = "financial"    -> policy.allowFinancialProof
      [] OTHER                          -> Some(FALSE)

\* pricing?.<field> || fallback: the fallback replaces a missing pricing
\* object, a missing price and the price 0.
PriceOr(pricing, field, fallback) ==
    IF pricing = Undefined THEN fallback
    ELSE IF pricing[1][field] = Undefined \/ pricing[1][field] = Some(0) THEN fallback
    ELSE pricing[1][field][1]

getBasePrice(predicateType, policy) ==
    CASE predicateType = "subscription" -> PriceOr(policy.pricing, "subscription", 50)
      [] predicateType = "delivery"     -> PriceOr(policy.pricing, "delivery", 100)
      [] predicateType = "purchase"     -> PriceOr(policy.pricing, "purchase", 250)
      [] predicateType = "financial"    -> PriceOr(policy.pricing, "financial", 500)
      [] OTHER                          -> 0

\* getRecentRequestCount without its filter: every retained request counts.
getRecentRequestCount_unfiltered(predicateType, history, t) ==
    Len(history[predicateType])

\* requests.filter(req => req.timestamp > oneHourAgo).length
getRecentRequestCount(predicateType, history, t) ==
    LET requestsOfType == history[predicateType]
        oneHourAgo == t - OneHour
    IN  Cardinality({i \in 1..Len(requestsOfType) :
                        requestsOfType[i].timestamp > oneHourAgo})

\* In tenths: 1.0 + 0.5 for bodies + 0.3 for personal info.
calculatePrivacyMultiplier(request) ==
    10 + (IF request.requestedData.includeBodies THEN 5 ELSE 0)
       + (IF request.requestedData.includePersonalInfo THEN 3 ELSE 0)

baseEmails == 10

\* calculateVolumeMultiplier without its cap at 2.0.
calculateVolumeMultiplier_uncapped(request) ==
    LET requestedEmails == request.requestedData.maxEmails
    IN  IF requestedEmails <= baseEmails THEN 100
        ELSE 100 + ((requestedEmails - baseEmails) * 20) \div baseEmails

\* In hundredths: 1 + ((requestedEmails - baseEmails) / baseEmails) * 0.2,
\* at most 2.0.
calculateVolumeMultiplier(request) ==
    LET requestedEmails == request.requestedData.maxEmails
    IN  IF requestedEmails <= baseEmails THEN 100
        ELSE Min(100 + ((requestedEmails - baseEmails) * 20) \div baseEmails, 200)

\* The demand multiplier counting the request being priced as recent demand.
DemandMultiplier_countsSelf(requestCount) == Min(10 + requestCount + 1, 20)

\* In tenths: Math.min(1 + requestCount * 0.1, 2.0).
DemandMultiplier(requestCount) == Min(10 + requestCount, 20)

\* The price in thousandths.  finalPrice is multiplied by the three
\* multipliers in turn (tenths, tenths, hundredths) and rounded:
\* Math.round(finalPrice * 1000) / 1000.
calculateDynamicPrice(request, basePrice, history, t) ==
    IF request.predicateType \notin pricingStrategies THEN basePrice
    ELSE LET requestCount == getRecentRequestCount(request.predicateType, history, t)
             afterDemand  == basePrice * DemandMultiplier(requestCount)
             afterPrivacy == afterDemand * calculatePrivacyMultiplier(request)
             afterVolume  == afterPrivacy * calculateVolumeMultiplier(request)
         IN  MathRound(afterVolume, 10 * 10 * 100)

\* checkPrivacyCompatibility looking at personal info before bodies.
checkPrivacyCompatibility_personalFirst(request, policy) ==
    IF request.requestedData.includePersonalInfo /\ Truthy(policy.redactPersonalInfo)
    THEN [compatible |-> FALSE, reason |-> Some(ReasonPersonal),
          suggestedConditions |-> <<"Accept redacted personal information only">>]
    ELSE IF request.requestedData.includeBodies /\ Truthy(policy.redactEmailBodies)
    THEN [compatible |-> FALSE, reason |-> Some(ReasonBodies),
          suggestedConditions |-> <<"Accept redacted email bodies only">>]
    ELSE [compatible |-> TRUE, reason |-> Undefined, suggestedConditions |-> <<>>]

checkPrivacyCompatibility(request, policy) ==
    IF request.requestedData.includeBodies /\ Truthy(policy.redactEmailBodies)
    THEN [compatible |-> FALSE, reason |-> Some(ReasonBodies),
          suggestedConditions |-> <<"Accept redacted email bodies only">>]
    ELSE IF request.requestedData.includePersonalInfo /\ Truthy(policy.redactPersonalInfo)
    THEN [compatible |-> FALSE, reason |-> Some(ReasonPersonal),
          suggestedConditions |-> <<"Accept redacted personal information only">>]
    ELSE [compatible |-> TRUE, reason |-> Undefined,
          suggestedConditions |->
              (IF policy.maxEmailAge # Undefined
                  /\ request.requestedData.maxAge > policy.maxEmailAge[1]
               THEN <<"Limit to maxEmailAge days maximum">> ELSE <<>>)
              \o (IF policy.maxEmailsPerRequest # Undefined
                     /\ request.requestedData.maxEmails > policy.maxEmailsPerRequest[1]
                  THEN <<"Limit to maxEmailsPerRequest emails maximum">> ELSE <<>>)]

\* createAdjustedPolicy granting what was requested, whatever the policy says.
createAdjustedPolicy_asRequested(request, policy) ==
    [maxEmailAge         |-> Some(request.requestedData.maxAge),
     maxEmailsPerRequest |-> Some(request.requestedData.maxEmails),
     redactEmailBodies   |-> Some(~request.requestedData.includeBodies),
     redactPersonalInfo  |-> Some(~request.requestedData.includePersonalInfo)]

createAdjustedPolicy(request, policy) ==
    [maxEmailAge         |-> MathMin(request.requestedData.maxAge, policy.maxEmailAge),
     maxEmailsPerRequest |-> MathMin(request.requestedData.maxEmails,
                                     policy.maxEmailsPerRequest),
     redactEmailBodies   |-> JsOr(Some(~request.requestedData.includeBodies),
                                  policy.redactEmailBodies),
     redactPersonalInfo  |-> JsOr(Some(~request.requestedData.includePersonalInfo),
                                  policy.redactPersonalInfo)]

\* !walletAddress || !validateWalletAddress(walletAddress): an absent and an
\* empty address are falsy.
WalletInvalid(policy) ==
    \/ policy.walletAddress = Undefined
    \/ policy.walletAddress[1] = <<>>
    \/ ~validateWalletAddress(policy.walletAddress[1])

negotiateRequest(request, currentPolicy, history, t) ==
    IF ~Truthy(currentPolicy.globalDataSharing)
    THEN NegotiationResult(FALSE, Undefined, Undefined, Some(ReasonGlobal), Undefined)
    ELSE IF ~Truthy(isPredicateAllowed(request.predicateType, currentPolicy))
    THEN NegotiationResult(FALSE, Undefined, Undefined,
                           Some(ReasonAccess(request.predicateType)), Undefined)
    ELSE LET basePrice == getBasePrice(request.predicateType, currentPolicy)
             dynamicPrice == calculateDynamicPrice(request, basePrice, history, t)
             privacyCompatible == checkPrivacyCompatibility(request, currentPolicy)
         IN  IF ~privacyCompatible.compatible
             THEN NegotiationResult(FALSE, Undefined, Undefined,
                      privacyCompatible.reason,
                      Some([price      |-> dynamicPrice,
                            conditions |-> privacyCompatible.suggestedConditions]))
             ELSE IF WalletInvalid(currentPolicy)
             THEN NegotiationResult(FALSE, Undefined, Undefined,
                                    Some(ReasonWallet), Undefined)
             ELSE NegotiationResult(TRUE, Some(dynamicPrice),
                      Some(createAdjustedPolicy(request, currentPolicy)),
                      Undefined, Undefined)

---------------------------------------------------------------------------
(* Background worker: negotiation *)

checkPredicateAllowed(predicateType, policy) ==
    CASE predicateType = "subscription" -> policy.allowSubscriptionProof
      [] predicateType = "delivery"     -> policy.allowDeliveryProof
      [] predicateType = "purchase"     -> policy.allowPurchaseProof
      [] predicateType = "financial"    -> policy.allowFinancialProof
      [] OTHER                          -> Some(FALSE)

bg_getBasePrice(predicateType, policy) ==
    CASE predicateType = "subscription" -> PriceOr(policy.pricing, "subscription", 50)
      [] predicateType = "delivery"     -> PriceOr(policy.pricing, "delivery", 100)
      [] predicateType = "purchase"     -> PriceOr(policy.pricing, "purchase", 250)
      [] predicateType = "financial"    -> PriceOr(policy.pricing, "financial", 500)
      [] OTHER                          -> 0

\* The price in thousandths: times 1.5 for bodies, times 1.3 for personal
\* info, times the volume multiplier above baseEmails, then rounded.
bg_calculateDynamicPrice(request, basePrice) ==
    LET afterBodies   == basePrice
                           * (IF request.requestedData.includeBodies THEN 15 ELSE 10)
        afterPersonal == afterBodies
                           * (IF request.requestedData.includePersonalInfo THEN 13 ELSE 10)
        volume        == IF request.requestedData.maxEmails > 10
                         THEN Min(100 + ((request.requestedData.maxEmails - 10) * 20)
                                            \div 10, 200)
                         ELSE 100
    IN  MathRound(afterPersonal * volume, 10 * 10 * 100)

\* The adjustedPolicy literal of simulateNegotiation.
bg_adjustedPolicy(request, policy) ==
    [maxEmailAge         |-> MathMin(request.requestedData.maxAge, policy.maxEmailAge),
     maxEmailsPerRequest |-> MathMin(request.requestedData.maxEmails,
                                     policy.maxEmailsPerRequest),
     redactEmailBodies   |-> JsOr(Some(~request.requestedData.includeBodies),
                                  policy.redactEmailBodies),
     redactPersonalInfo  |-> JsOr(Some(~request.requestedData.includePersonalInfo),
                                  policy.redactPersonalInfo)]

\* simulateNegotiation without its globalDataSharing check.
simulateNegotiation_noGlobalCheck(request, policy) ==
    IF ~Truthy(checkPredicateAllowed(request.predicateType, policy))
    THEN NegotiationResult(FALSE, Undefined, Undefined,
                           Some(ReasonAccess(request.predicateType)), Undefined)
    ELSE LET basePrice == bg_getBasePrice(request.predicateType, policy)
             finalPrice == bg_calculateDynamicPrice(request, basePrice)
         IN  NegotiationResult(TRUE, Some(finalPrice),
                 Some(bg_adjustedPolicy(request, policy)), Undefined, Undefined)

simulateNegotiation(request, policy) ==
    IF ~Truthy(policy.globalDataSharing)
    THEN NegotiationResult(FALSE, Undefined, Undefined, Some(ReasonGlobal), Undefined)
    ELSE IF ~Truthy(checkPredicateAllowed(request.predicateType, policy))
    THEN NegotiationResult(FALSE, Undefined, Undefined,
                           Some(ReasonAccess(request.predicateType)), Undefined)
    ELSE LET basePrice == bg_getBasePrice(request.predicateType, policy)
             finalPrice == bg_calculateDynamicPrice(request, basePrice)
         IN  NegotiationResult(TRUE, Some(finalPrice),
                 Some(bg_adjustedPolicy(request, policy)), Undefined, Undefined)

---------------------------------------------------------------------------
(* Background worker: email data *)

\* A text the code searches (a subject, a sender) is the sequence of its
\* pieces, cut so that every keyword occurrence is one piece.  toLowerCase
\* maps the capitalised pieces of the sample texts.
toLowerCase(text) ==
    [i \in 1..Len(text) |->
        CASE text[i] = "Newsletter" -> "newsletter"
          [] text[i] = "Amazon"     -> "amazon"
          [] text[i] = "Order"      -> "order"
          [] text[i] = "Delivered"  -> "delivered"
          [] text[i] = "Weekly"     -> "weekly"
          [] OTHER                  -> text[i]]

includes(text, keyword) == \E i \in 1..Len(text) : text[i] = keyword

OneDay == 24 * 60 * 60

REDACTED == <<"[REDACTED]">>

\* An email as the mail service sends it; date is the instant of
\* email.timestamp || email.date.
Email(id, subject, sender, date, body, type) ==
    [id |-> id, subject |-> subject, sender |-> sender, date |-> date,
     body |-> body, type |-> type]

isRequestAllowed(request, policy) ==
    CASE request.predicate.type = "subscription" -> policy.allowSubscriptionProof
      [] request.predicate.type = "delivery"     -> policy.allowDeliveryProof
      [] request.predicate.type = "purchase"     -> policy.allowPurchaseProof
      [] OTHER                                   -> Some(FALSE)

\* The filter callback of filterEmailsByPredicate.
MatchesPredicate(email, predicate, t) ==
    LET cutoffDate == t - predicate.maxAge * OneDay
        emailType  == IF email.type = Undefined THEN "general" ELSE email.type[1]
        subject    == toLowerCase(email.subject)
        sender     == toLowerCase(email.sender)
    IN  IF email.date < cutoffDate THEN FALSE
        ELSE CASE predicate.type = "subscription" ->
                    \/ emailType = "subscription"
                    \/ includes(subject, "unsubscribe")
                    \/ includes(subject, "subscription")
                    \/ includes(subject, "newsletter")
               [] predicate.type = "delivery" ->
                    \/ emailType = "delivery"
                    \/ includes(subject, "delivered")
                    \/ includes(subject, "delivery")
                    \/ includes(sender, "amazon")
                    \/ includes(sender, "dhl")
                    \/ includes(sender, "ups")
               [] predicate.type = "purchase" ->
                    \/ emailType = "purchase"
                    \/ includes(subject, "order")
                    \/ includes(subject, "receipt")
                    \/ includes(subject, "payment")
               [] OTHER -> FALSE

\* filterEmailsByPredicate with a cutoff no record is older than.
filterEmailsByPredicate_noCutoff(emails, predicate, t) ==
    LET Keep(email) == MatchesPredicate(email, predicate, email.date)
    IN  SelectSeq(emails, Keep)

filterEmailsByPredicate(emails, predicate, t) ==
    LET Keep(email) == MatchesPredicate(email, predicate, t)
    IN  SelectSeq(emails, Keep)

getMockEmailData(predicate, t) ==
    filterEmailsByPredicate(
        <<Email("1", <<"Your ", "Amazon", " ", "order", " has been ", "delivered">>,
                <<"noreply@", "amazon", ".com">>, t - 5 * OneDay,
                <<"Your order #123-456789 has been delivered to your address.">>,
                Some("delivery")),
          Email("2", <<"Newsletter", ": Weekly Tech Updates">>,
                <<"newsletter", "@techcrunch.com">>, t - 10 * OneDay,
                <<"This week in tech: AI breakthroughs, startup funding, and more.">>,
                Some("subscription"))>>,
        predicate, t)

\* fetched is what fetch() produced: [ok |-> TRUE, emails |-> the JSON body],
\* or ok = FALSE for a network error or a non-OK status, which the catch block
\* answers with the mock data.
fetchEmailData(predicate, fetched, t) ==
    IF fetched.ok THEN filterEmailsByPredicate(fetched.emails, predicate, t)
    ELSE getMockEmailData(predicate, t)

\* applyRedaction with the sender redacted whenever the body is.
applyRedaction_senderWithBody(emailData, policy) ==
    [i \in 1..Len(emailData) |->
        [emailData[i] EXCEPT
            !.body    = IF Truthy(policy.redactEmailBodies) THEN REDACTED ELSE @,
            !.subject = IF Truthy(policy.showSubjectInfo) THEN @ ELSE REDACTED,
            !.sender  = IF Truthy(policy.redactEmailBodies) THEN REDACTED ELSE @]]

applyRedaction(emailData, policy) ==
    [i \in 1..Len(emailData) |->
        [emailData[i] EXCEPT
            !.body    = IF Truthy(policy.redactEmailBodies) THEN REDACTED ELSE @,
            !.subject = IF Truthy(policy.showSubjectInfo) THEN @ ELSE REDACTED,
            !.sender  = IF Truthy(policy.showSenderInfo) THEN @ ELSE REDACTED]]

\* The response handleEmailDataRequest sends, without the copy of the policy
\* it carries.
EmailDataResponse(request, policy, fetched, t) ==
    IF ~Truthy(isRequestAllowed(request, policy))
    THEN [success |-> Undefined,
          error   |-> Some("Request not allowed by user policy"),
          data    |-> Undefined]
    ELSE [success |-> Some(TRUE),
          error   |-> Undefined,
          data    |-> Some(applyRedaction(
                              fetchEmailData(request.predicate, fetched, t), policy))]

---------------------------------------------------------------------------
(* PolicyAgent.recordRequest *)

HistoryCap == 100

\* recordRequest without its splice.
Recorded_unspliced(existingRequests, request) == Append(existingRequests, request)

\* existingRequests.push(request), then splice(0, length - 100) above 100.
Recorded(existingRequests, request) ==
    LET pushed == Append(existingRequests, request)
    IN  IF Len(pushed) > HistoryCap
        THEN SubSeq(pushed, Len(pushed) - HistoryCap + 1, Len(pushed))
        ELSE pushed

---------------------------------------------------------------------------
(* Operations.  Each takes the set its input is drawn from. *)

NoOutcome ==
    [op |-> "none", request |-> Undefined, result |-> Undefined]

\* The onInstalled listener before it runs.
IdleInstallation == [pc |-> "idle", read |-> Undefined]

\* chrome.runtime.onInstalled: the default policy is stored if none is.
OnInstalled ==
    /\ userPolicy' = IF userPolicy = Undefined THEN Some(getDefaultPolicy) ELSE userPolicy
    /\ outcome' = [op |-> "onInstalled", request |-> Undefined, result |-> Undefined]
    /\ UNCHANGED <<requestHistory, now, asyncVars>>

\* UPDATE_USER_POLICY: the policy of the message replaces the stored one,
\* unexamined.
handleUpdateUserPolicy(policies) ==
    \E policy \in policies :
        /\ userPolicy' = Some(policy)
        /\ outcome' = [op |-> "UPDATE_USER_POLICY", request |-> Undefined,
                       result |-> Some([success |-> TRUE])]
        /\ UNCHANGED <<requestHistory, now, asyncVars>>

\* GET_USER_POLICY
handleGetUserPolicy ==
    /\ outcome' = [op |-> "GET_USER_POLICY", request |-> Undefined,
                       result |-> Some([success |-> TRUE])]
    /\ UNCHANGED <<userPolicy, requestHistory, now, asyncVars>>

\* A message of a type the listener has no case for.
unknownMessage ==
    /\ outcome' = [op |-> "unknown", request |-> Undefined,
                   result |-> Some([error |-> "Unknown message type"])]
    /\ UNCHANGED <<userPolicy, requestHistory, now, asyncVars>>

\* GENERATE_PROOF: the mock proof counts request.emailData; a request
\* without emailData throws, and the catch block answers.
handleProofGeneration(requests) ==
    \E request \in requests :
        /\ outcome' =
              [op |-> "GENERATE_PROOF", request |-> Some(request),
               result |-> Some(IF request.emailData = Undefined
                               THEN [success |-> Undefined,
                                     error |-> Some("Failed to generate proof"),
                                     emailCount |-> Undefined]
                               ELSE [success |-> Some(TRUE), error |-> Undefined,
                                     emailCount |-> Some(Len(request.emailData[1]))])]
        /\ UNCHANGED <<userPolicy, requestHistory, now, asyncVars>>

\* VERIFY_PAYMENT: simulatePaymentVerification finds every proof valid, for
\* 0.25.
handleVerifyPayment ==
    /\ outcome' = [op |-> "VERIFY_PAYMENT", request |-> Undefined,
                   result |-> Some([success |-> TRUE, isValid |-> TRUE,
                                    amount |-> 250])]
    /\ UNCHANGED <<userPolicy, requestHistory, now, asyncVars>>

\* NEGOTIATE_REQUEST: getUserPolicy(), simulateNegotiation(), sendResponse.
handleNegotiateRequest(requests) ==
    \E request \in requests :
        LET policy == getUserPolicy(userPolicy)
        IN  /\ outcome' = [op |-> "NEGOTIATE_REQUEST", request |-> Some(request),
                           result |-> Some(simulateNegotiation(request, policy))]
            /\ UNCHANGED <<userPolicy, requestHistory, now, asyncVars>>

\* A caller of PolicyAgent.negotiateRequest passes the current policy.
PolicyAgentNegotiate(requests) ==
    \E request \in requests :
        LET currentPolicy == getUserPolicy(userPolicy)
        IN  /\ outcome' =
                  [op |-> "negotiateRequest", request |-> Some(request),
                   result |-> Some(negotiateRequest(request, currentPolicy,
                                                    requestHistory, now))]
            /\ UNCHANGED <<userPolicy, requestHistory, now, asyncVars>>

\* PolicyAgent.recordRequest, while the type holds fewer than max requests.
recordRequest(requests, max) ==
    \E request \in requests :
        /\ Len(requestHistory[request.predicateType]) < max
        /\ requestHistory' =
              [requestHistory EXCEPT
                  ![request.predicateType] = Recorded(@, request)]
        /\ outcome' = [op |-> "recordRequest", request |-> Some(request),
                       result |-> Undefined]
        /\ UNCHANGED <<userPolicy, now, asyncVars>>

\* Date.now() grows: step seconds pass, up to the instant until.  The answer
\* of an operation is looked at before time passes.
Tick(step, until) ==
    /\ now + step <= until
    /\ now' = now + step
    /\ outcome' = [op |-> "tick", request |-> Undefined, result |-> Undefined]
    /\ UNCHANGED <<userPolicy, requestHistory, asyncVars>>

\* REQUEST_EMAIL_DATA: getUserPolicy(), isRequestAllowed(), fetchEmailData(),
\* applyRedaction(), sendResponse.  The outcome keeps what fetch() produced
\* for the handler, if it got as far as fetching.
handleEmailDataRequest(requests, fetches) ==
    \E request \in requests, fetched \in fetches :
        LET policy == getUserPolicy(userPolicy)
        IN  /\ outcome' = [op |-> "REQUEST_EMAIL_DATA", request |-> Some(request),
                           result |-> Some(EmailDataResponse(request, policy,
                                                             fetched, now)),
                           fetched |-> IF Truthy(isRequestAllowed(request, policy))
                                       THEN Some(fetched) ELSE Undefined]
            /\ UNCHANGED <<userPolicy, requestHistory, now, asyncVars>>

---------------------------------------------------------------------------
(* The handlers step by step.  A handler runs from one await to the next   *)
(* without interruption; between two awaits any other handler may run.     *)
(* The page is loaded (document.body exists) when a fetch is intercepted.   *)

MaxFetches == 2

MaxPayments == 2

Fetches == 1..MaxFetches

\* The callers of REQUEST_EMAIL_DATA: an intercepted fetch, or 0 for
\* window.DataGuard.requestEmailData.
DataGuardAPI == 0

Callers == {DataGuardAPI} \cup Fetches

IdleCall ==
    [pc |-> "idle", request |-> Undefined, policy |-> Undefined,
     fetched |-> Undefined, response |-> Undefined]

\* const policy = await getUserPolicy(): the value the rest of the handler
\* uses.
handlerPolicy_reread(call) == getUserPolicy(userPolicy)

handlerPolicy(call) == call.policy[1]

EmailDataRefused ==
    [success |-> Undefined,
     error   |-> Some("Request not allowed by user policy"),
     data    |-> Undefined]

EmailDataReleased(redactedData) ==
    [success |-> Some(TRUE), error |-> Undefined, data |-> Some(redactedData)]

\* chrome.runtime.sendMessage({type: 'REQUEST_EMAIL_DATA', data: {predicate}}):
\* the listener calls handleEmailDataRequest, which awaits getUserPolicy().
sendMessageToBackground(caller, request) ==
    [emailCalls EXCEPT
        ![caller] = [IdleCall EXCEPT !.pc = "getUserPolicy",
                                     !.request = Some(request)]]

\* The handler fetching whatever the permission check says.
handleEmailDataRequest_getUserPolicy_unchecked(caller) ==
    /\ emailCalls[caller].pc = "getUserPolicy"
    /\ emailCalls' =
          [emailCalls EXCEPT ![caller] =
              [@ EXCEPT !.pc = "fetchEmailData",
                        !.policy = Some(getUserPolicy(userPolicy))]]
    /\ UNCHANGED <<userPolicy, requestHistory, now, outcome, negotiateCall,
                   intercepts, notification, recentRequests, payments,
                   paymentHistory, installation>>

\* getUserPolicy() resolves: the refusal is sent, or fetchEmailData awaited.
handleEmailDataRequest_getUserPolicy(caller) ==
    /\ emailCalls[caller].pc = "getUserPolicy"
    /\ LET policy  == getUserPolicy(userPolicy)
           request == emailCalls[caller].request[1]
       IN  emailCalls' =
             [emailCalls EXCEPT ![caller] =
                IF ~Truthy(isRequestAllowed(request, policy))
                THEN [@ EXCEPT !.pc = "done", !.policy = Some(policy),
                               !.response = Some(EmailDataRefused)]
                ELSE [@ EXCEPT !.pc = "fetchEmailData", !.policy = Some(policy)]]
    /\ UNCHANGED <<userPolicy, requestHistory, now, outcome, negotiateCall,
                   intercepts, notification, recentRequests, payments,
                   paymentHistory, installation>>

\* fetchEmailData() resolves: applyRedaction and sendResponse.
handleEmailDataRequest_fetchEmailData(caller, fetches) ==
    /\ emailCalls[caller].pc = "fetchEmailData"
    /\ \E fetched \in fetches :
          LET call      == emailCalls[caller]
              emailData == fetchEmailData(call.request[1].predicate, fetched, now)
          IN  emailCalls' =
                [emailCalls EXCEPT ![caller] =
                   [@ EXCEPT !.pc = "done", !.fetched = Some(fetched),
                             !.response = Some(EmailDataReleased(
                                 applyRedaction(emailData, handlerPolicy(call))))]]
    /\ UNCHANGED <<userPolicy, requestHistory, now, outcome, negotiateCall,
                   intercepts, notification, recentRequests, payments,
                   paymentHistory, installation>>

EmailDataFailed ==
    [success |-> Undefined,
     error   |-> Some("Failed to process email data request"),
     data    |-> Undefined]

\* getUserPolicy() rejects (the storage read fails): the catch block answers.
handleEmailDataRequest_throws(caller) ==
    /\ emailCalls[caller].pc = "getUserPolicy"
    /\ emailCalls' = [emailCalls EXCEPT ![caller] =
                         [@ EXCEPT !.pc = "done", !.response = Some(EmailDataFailed)]]
    /\ UNCHANGED <<userPolicy, requestHistory, now, outcome, negotiateCall,
                   intercepts, notification, recentRequests, payments,
                   paymentHistory, installation>>

\* window.DataGuard.requestEmailData(predicate), called by the page.
requestEmailData(requests) ==
    /\ emailCalls[DataGuardAPI].pc = "idle"
    /\ \E request \in requests :
          emailCalls' = sendMessageToBackground(DataGuardAPI, request)
    /\ UNCHANGED <<userPolicy, requestHistory, now, outcome, negotiateCall,
                   intercepts, notification, recentRequests, payments,
                   paymentHistory, installation>>

IdleNegotiation ==
    [pc |-> "idle", request |-> Undefined, policy |-> Undefined,
     result |-> Undefined, response |-> Undefined]

\* NEGOTIATE_REQUEST arrives: handleNegotiateRequest awaits getUserPolicy().
handleNegotiateRequest_start(requests) ==
    /\ negotiateCall.pc = "idle"
    /\ \E request \in requests :
          negotiateCall' = [IdleNegotiation EXCEPT !.pc = "getUserPolicy",
                                                   !.request = Some(request)]
    /\ UNCHANGED <<userPolicy, requestHistory, now, outcome, emailCalls,
                   intercepts, notification, recentRequests, payments,
                   paymentHistory, installation>>

\* getUserPolicy() resolves and simulateNegotiation(request, policy) runs.
handleNegotiateRequest_getUserPolicy ==
    /\ negotiateCall.pc = "getUserPolicy"
    /\ LET policy == getUserPolicy(userPolicy)
       IN  negotiateCall' =
             [negotiateCall EXCEPT
                !.pc = "sendResponse", !.policy = Some(policy),
                !.result = Some(simulateNegotiation(negotiateCall.request[1], policy))]
    /\ UNCHANGED <<userPolicy, requestHistory, now, outcome, emailCalls,
                   intercepts, notification, recentRequests, payments,
                   paymentHistory, installation>>

\* sendResponse({success: true, result: negotiationResult})
handleNegotiateRequest_sendResponse ==
    /\ negotiateCall.pc = "sendResponse"
    /\ negotiateCall' = [negotiateCall EXCEPT !.pc = "done",
                                              !.response = negotiateCall.result]
    /\ UNCHANGED <<userPolicy, requestHistory, now, outcome, emailCalls,
                   intercepts, notification, recentRequests, payments,
                   paymentHistory, installation>>

\* getUserPolicy() rejects: the catch block of handleNegotiateRequest answers.
handleNegotiateRequest_throws ==
    /\ negotiateCall.pc = "getUserPolicy"
    /\ negotiateCall' =
          [negotiateCall EXCEPT
             !.pc = "done",
             !.response = Some([success |-> FALSE, error |-> "Negotiation failed"])]
    /\ UNCHANGED <<userPolicy, requestHistory, now, outcome, emailCalls,
                   intercepts, notification, recentRequests, payments,
                   paymentHistory, installation>>

---------------------------------------------------------------------------
(* The content script: the fetch interceptor and what it stores *)

RecentCap == 10

\* call: the arguments of window.fetch; queued: the request was pushed on
\* requestQueue; forwarded: the arguments handed to the original fetch.
IdleIntercept ==
    [pc |-> "idle", request |-> Undefined, resolvedBy |-> Undefined,
     approved |-> Undefined, response |-> Undefined,
     store |-> "none", read |-> Undefined,
     call |-> Undefined, queued |-> FALSE, forwarded |-> Undefined]

\* What the intercepted fetch returns to the page, and what it stores:
\* stored is the approved mark of the entry, or undefined for no entry.
respondToPage_storesAlways(approved, response) ==
    IF approved
    THEN [status |-> IF Truthy(response.success) THEN 200 ELSE 403,
          data |-> response.data, stored |-> Some(TRUE)]
    ELSE [status |-> 200, data |-> Some(<<>>), stored |-> Some(FALSE)]

respondToPage(approved, response) ==
    IF approved
    THEN IF Truthy(response.success)
         THEN [status |-> 200, data |-> response.data, stored |-> Some(TRUE)]
         ELSE [status |-> 403, data |-> Undefined, stored |-> Undefined]
    ELSE [status |-> 200, data |-> Some(<<>>), stored |-> Some(FALSE)]

\* window.fetch of an email-data URL: the request is queued and
\* showRequestNotificationAndWait removes the notification in the page, if
\* any, and appends its own.
interceptedFetch(f, requests) ==
    /\ intercepts[f].pc = "idle"
    /\ \E request \in requests :
          intercepts' = [intercepts EXCEPT
                            ![f] = [IdleIntercept EXCEPT !.pc = "prompt",
                                                         !.request = Some(request),
                                                         !.queued = TRUE]]
    /\ notification' = f
    /\ UNCHANGED <<userPolicy, requestHistory, now, outcome, emailCalls,
                   negotiateCall, recentRequests, payments, paymentHistory,
                   installation>>

\* A click on #dataguard-approve: resolve({approved: true}), and
\* REQUEST_EMAIL_DATA goes to the worker.
approveClick(f) ==
    /\ notification = f
    /\ intercepts[f].pc = "prompt"
    /\ notification' = 0
    /\ intercepts' = [intercepts EXCEPT
                        ![f] = [@ EXCEPT !.pc = "sendMessageToBackground",
                                         !.resolvedBy = Some("approve"),
                                         !.approved = Some(TRUE)]]
    /\ emailCalls' = sendMessageToBackground(f, [predicate |-> intercepts[f].request[1].predicate])
    /\ UNCHANGED <<userPolicy, requestHistory, now, outcome, negotiateCall,
                   recentRequests, payments, paymentHistory, installation>>

\* resolve({approved: false}): storeDeniedRequest is called and the empty
\* list returned.
Denied(f, by) ==
    /\ notification = f
    /\ intercepts[f].pc = "prompt"
    /\ notification' = 0
    /\ LET answer == respondToPage(FALSE, Undefined)
       IN  intercepts' = [intercepts EXCEPT
                            ![f] = [@ EXCEPT !.pc = "returned",
                                             !.resolvedBy = Some(by),
                                             !.approved = Some(FALSE),
                                             !.response = Some(answer),
                                             !.store = "get"]]
    /\ UNCHANGED <<userPolicy, requestHistory, now, outcome, emailCalls,
                   negotiateCall, recentRequests, payments, paymentHistory,
                   installation>>

\* A click on #dataguard-deny.
denyClick(f) == Denied(f, "deny")

\* The 30 second timer fires while the notification is still in the page
\* (notification.parentNode); it does nothing otherwise.
autoDeny(f) == Denied(f, "timeout")

\* The worker's response arrives at the approved fetch.
interceptedFetch_response(f) ==
    /\ intercepts[f].pc = "sendMessageToBackground"
    /\ emailCalls[f].pc = "done"
    /\ LET answer == respondToPage(TRUE, emailCalls[f].response[1])
       IN  intercepts' = [intercepts EXCEPT
                            ![f] = [@ EXCEPT !.pc = "returned",
                                             !.response = Some(answer),
                                             !.store = IF answer.stored = Undefined
                                                       THEN "none" ELSE "get"]]
    /\ UNCHANGED <<userPolicy, requestHistory, now, outcome, emailCalls,
                   negotiateCall, notification, recentRequests, payments,
                   paymentHistory, installation>>

\* requests.slice(0, 10)
slice(requests, end) ==
    IF Len(requests) > end THEN SubSeq(requests, 1, end) ELSE requests

\* storeApprovedResponse / storeDeniedRequest:
\* chrome.storage.local.get(['recentRequests']) resolves.
storeRequest_get(f) ==
    /\ intercepts[f].store = "get"
    /\ intercepts' = [intercepts EXCEPT
                        ![f] = [@ EXCEPT !.store = "set",
                                         !.read = Some(recentRequests)]]
    /\ UNCHANGED <<userPolicy, requestHistory, now, outcome, emailCalls,
                   negotiateCall, notification, recentRequests, payments,
                   paymentHistory, installation>>

\* requests.unshift(entry), then set({recentRequests: requests.slice(0, 10)}).
storeRequest_set(f) ==
    /\ intercepts[f].store = "set"
    /\ LET entry == [fetch    |-> f,
                     request  |-> intercepts[f].request[1],
                     approved |-> intercepts[f].response[1].stored[1]]
       IN  recentRequests' = slice(<<entry>> \o intercepts[f].read[1], RecentCap)
    /\ intercepts' = [intercepts EXCEPT ![f] = [@ EXCEPT !.store = "done"]]
    /\ UNCHANGED <<userPolicy, requestHistory, now, outcome, emailCalls,
                   negotiateCall, notification, payments, paymentHistory,
                   installation>>

---------------------------------------------------------------------------
(* PROCESS_PAYMENT *)

PaymentCap == 50

\* A PROCESS_PAYMENT handler: its position, the price of its message, the
\* history it is about to write, and the response it has sent.
IdlePayment ==
    [pc |-> "idle", price |-> Undefined, read |-> Undefined, response |-> Undefined]

\* The paymentRecord of storePaymentRecord, for the fields that tell two
\* records apart; the number of the handler stands for the transactionHash.
PaymentRecord(p) ==
    [requestId |-> p, amount |-> payments[p].price[1], status |-> "completed"]

\* handleProcessPayment: the paymentRequest takes the price of the message,
\* simulateFacilitatorPayment succeeds and storePaymentRecord awaits
\* chrome.storage.local.get(['paymentHistory']).
handleProcessPayment(p, prices) ==
    /\ payments[p].pc = "idle"
    /\ \E price \in prices :
          payments' = [payments EXCEPT ![p] = [@ EXCEPT !.pc = "get",
                                                        !.price = Some(price)]]
    /\ UNCHANGED <<userPolicy, requestHistory, now, outcome, emailCalls,
                   negotiateCall, intercepts, notification, recentRequests,
                   paymentHistory, installation>>

\* The get resolves; the record is pushed, the front spliced off above 50,
\* and chrome.storage.local.set({paymentHistory}) awaited.
storePaymentRecord_get(p) ==
    /\ payments[p].pc = "get"
    /\ LET pushed == Append(paymentHistory, PaymentRecord(p))
       IN  payments' =
             [payments EXCEPT
                ![p] = [@ EXCEPT
                          !.pc   = "set",
                          !.read = Some(IF Len(pushed) > PaymentCap
                                        THEN SubSeq(pushed, Len(pushed) - PaymentCap + 1,
                                                    Len(pushed))
                                        ELSE pushed)]]
    /\ UNCHANGED <<userPolicy, requestHistory, now, outcome, emailCalls,
                   negotiateCall, intercepts, notification, recentRequests,
                   paymentHistory, installation>>

\* The success response sent with nothing written.
storePaymentRecord_set_unwritten(p) ==
    /\ payments[p].pc = "set"
    /\ payments' =
          [payments EXCEPT
             ![p] = [@ EXCEPT !.pc = "done",
                              !.response = Some([success |-> TRUE,
                                                 amount  |-> payments[p].price[1]])]]
    /\ UNCHANGED <<userPolicy, requestHistory, now, outcome, emailCalls,
                   negotiateCall, intercepts, notification, recentRequests,
                   paymentHistory, installation>>

\* The set resolves and handleProcessPayment sends its success response.
storePaymentRecord_set(p) ==
    /\ payments[p].pc = "set"
    /\ paymentHistory' = payments[p].read[1]
    /\ payments' =
          [payments EXCEPT
             ![p] = [@ EXCEPT !.pc = "done",
                              !.response = Some([success |-> TRUE,
                                                 amount  |-> payments[p].price[1]])]]
    /\ UNCHANGED <<userPolicy, requestHistory, now, outcome, emailCalls,
                   negotiateCall, intercepts, notification, recentRequests,
                   installation>>

\* A rejected read or write that ends the handler without an answer.
storePaymentRecord_throws_unanswered(p) ==
    /\ payments[p].pc \in {"get", "set"}
    /\ payments' = [payments EXCEPT ![p] = [@ EXCEPT !.pc = "done"]]
    /\ UNCHANGED <<userPolicy, requestHistory, now, outcome, emailCalls,
                   negotiateCall, intercepts, notification, recentRequests,
                   paymentHistory, installation>>

\* chrome.storage.local.get or set rejects: storePaymentRecord throws, the
\* catch block of handleProcessPayment answers, and nothing is written.
storePaymentRecord_throws(p) ==
    /\ payments[p].pc \in {"get", "set"}
    /\ payments' =
          [payments EXCEPT
             ![p] = [@ EXCEPT !.pc = "done",
                              !.response = Some([success |-> FALSE,
                                                 amount  |-> Undefined])]]
    /\ UNCHANGED <<userPolicy, requestHistory, now, outcome, emailCalls,
                   negotiateCall, intercepts, notification, recentRequests,
                   paymentHistory, installation>>

InitialNow == 400 * OneDay

Init ==
    /\ userPolicy = Undefined
    /\ requestHistory = [type \in AllTypes |-> <<>>]
    /\ now = InitialNow
    /\ outcome = NoOutcome
    /\ emailCalls = [caller \in Callers |-> IdleCall]
    /\ negotiateCall = IdleNegotiation
    /\ intercepts = [f \in Fetches |-> IdleIntercept]
    /\ notification = 0
    /\ recentRequests = <<>>
    /\ payments = [p \in 1..MaxPayments |-> IdlePayment]
    /\ paymentHistory = <<>>
    /\ installation = IdleInstallation

---------------------------------------------------------------------------
(* Spec: permissions, privacy, wallet and the adjusted policy.  The stored  *)
(* policy ranges over PolicyInputs, the requests over RequestInputs and     *)
(* EmailRequestInputs; prices are the popup's and nothing is recorded.      *)
(* Every operation overwrites outcome, so the policy and the history an     *)
(* outcome was computed from are the stored ones.                           *)

AllowedInputs ==
    {{}, {"subscription", "delivery"}, {"purchase"}, PredicateTypes}

LimitInputs == {<<30, 10>>, <<90, 50>>}

WalletInputs == {WalletEmpty, WalletValid, WalletShort, WalletNotHex}

\* Policies that vary the switches, and policies that vary the limits and
\* the wallet; showSenderInfo and showSubjectInfo are as the popup derives
\* them.
PolicyInputs ==
    {Policy(Some(g), allowed, Some(rb), Some(rpi), PopupPricing,
            Some(30), Some(10), Some(WalletValid), Some(~rpi), Some(TRUE)) :
        g \in BOOLEAN, allowed \in AllowedInputs, rb \in BOOLEAN, rpi \in BOOLEAN}
    \cup
    {Policy(Some(TRUE), PredicateTypes, Some(rb), Some(rpi), PopupPricing,
            Some(limits[1]), Some(limits[2]), Some(wallet), Some(~rpi), Some(TRUE)) :
        rb \in BOOLEAN, rpi \in BOOLEAN, limits \in LimitInputs,
        wallet \in WalletInputs}

RequestInputs ==
    {NegotiationRequest(type, maxAge, maxEmails, bodies, personal, InitialNow) :
        type \in AllTypes, maxAge \in {7, 365}, maxEmails \in {5, 100},
        bodies \in BOOLEAN, personal \in BOOLEAN}

\* Requests with a negative age or count; the unknown category is among
\* RequestInputs.
MalformedInputs ==
    {NegotiationRequest("purchase", -1, 5, FALSE, FALSE, InitialNow),
     NegotiationRequest("subscription", 7, -5, FALSE, FALSE, InitialNow)}

EmailRequestInputs ==
    {[predicate |-> [type |-> type, maxAge |-> maxAge]] :
        type \in AllTypes, maxAge \in {7, 30}}

ServiceEmails ==
    <<Email("a", <<"Package ", "delivered">>, <<"tracking@", "dhl", ".com">>,
            InitialNow - 5 * OneDay, <<"body a">>, Some("delivery")),
      Email("b", <<"Your ", "Order", " ", "receipt">>, <<"shop@example.com">>,
            InitialNow - 2 * OneDay, <<"body b">>, Undefined),
      Email("c", <<"Weekly digest">>, <<"news@example.com">>,
            InitialNow - 20 * OneDay, <<"body c">>, Some("subscription"))>>

FetchInputs ==
    {[ok |-> TRUE, emails |-> ServiceEmails],
     [ok |-> TRUE, emails |-> <<>>],
     [ok |-> FALSE, emails |-> <<>>]}

Next ==
    \/ OnInstalled
    \/ handleUpdateUserPolicy(PolicyInputs)
    \/ handleGetUserPolicy
    \/ handleNegotiateRequest(RequestInputs \cup MalformedInputs)
    \/ PolicyAgentNegotiate(RequestInputs \cup MalformedInputs)
    \/ handleEmailDataRequest(EmailRequestInputs, FetchInputs)

Spec == Init /\ [][Next]_vars

---------------------------------------------------------------------------
(* SpecPrice: pricing.  The policies share every switch but the redaction   *)
(* flags and differ in their prices; purchase requests are recorded, up to  *)
(* MaxRecorded of them, all inside the trailing hour.  Configured prices    *)
(* stay at or below 10 USDC so that the products fit TLC's integers.        *)

MaxRecorded == 15

PricingInputs ==
    {Undefined, PopupPricing}
    \cup {Pricing(price, price, price, price) :
            price \in {Undefined, Some(0), Some(-50), Some(1), Some(125)}}

PricePolicyInputs ==
    {Policy(Some(TRUE), PredicateTypes, Some(redact), Some(redact), pricing,
            Some(90), Some(50), Some(WalletValid), Some(~redact), Some(TRUE)) :
        redact \in BOOLEAN, pricing \in PricingInputs}

PriceRequestInputs ==
    {NegotiationRequest(type, 30, maxEmails, bodies, personal, InitialNow) :
        type \in {"subscription", "purchase"}, maxEmails \in {10, 11, 20, 60, 61},
        bodies \in BOOLEAN, personal \in BOOLEAN}

RecordInputs == {NegotiationRequest("purchase", 30, 10, FALSE, FALSE, InitialNow)}

NextPrice ==
    \/ handleUpdateUserPolicy(PricePolicyInputs)
    \/ recordRequest(RecordInputs, MaxRecorded)
    \/ handleNegotiateRequest(PriceRequestInputs)
    \/ PolicyAgentNegotiate(PriceRequestInputs)

SpecPrice == Init /\ [][NextPrice]_vars

---------------------------------------------------------------------------
(* SpecLedger: the trailing hour.  Subscription and purchase requests are   *)
(* recorded with the timestamp of the instant they are recorded at, up to   *)
(* MaxLedger per type, while time passes in steps of half an hour, MaxTicks *)
(* of them; negotiations are priced in between.                             *)

MaxLedger == 3

MaxTicks == 4

HalfHour == OneHour \div 2

LedgerPolicy ==
    Policy(Some(TRUE), PredicateTypes, Some(FALSE), Some(FALSE), PopupPricing,
           Some(90), Some(50), Some(WalletValid), Some(TRUE), Some(TRUE))

LedgerTypes == {"subscription", "purchase"}

LedgerRequestInputs ==
    {NegotiationRequest(type, 30, 10, FALSE, FALSE, now) : type \in LedgerTypes}

NextLedger ==
    \/ handleUpdateUserPolicy({LedgerPolicy})
    \/ recordRequest(LedgerRequestInputs, MaxLedger)
    \/ Tick(HalfHour, InitialNow + MaxTicks * HalfHour)
    \/ PolicyAgentNegotiate(LedgerRequestInputs)

SpecLedger == Init /\ [][NextLedger]_vars

---------------------------------------------------------------------------
(* SpecCap: the cap of the history.  One request is recorded every second:  *)
(* purchase requests without end, and up to MaxOther subscription requests  *)
(* among them.  Each carries the instant it is recorded at, so no two       *)
(* recorded requests are equal.                                             *)

MaxOther == 1

CapSeconds == HistoryCap + MaxOther + 2

\* A request has been recorded at this instant.
RecordedNow ==
    \E type \in AllTypes :
        /\ requestHistory[type] # <<>>
        /\ requestHistory[type][Len(requestHistory[type])].timestamp = now

CapRequestInputs ==
    {NegotiationRequest(type, 30, 10, FALSE, FALSE, now) :
        type \in IF RecordedNow THEN {}
                 ELSE IF Len(requestHistory["subscription"]) < MaxOther
                      THEN LedgerTypes ELSE {"purchase"}}

NextCap ==
    \/ recordRequest(CapRequestInputs, HistoryCap + 1)
    \/ (RecordedNow /\ Tick(1, InitialNow + CapSeconds))

SpecCap == Init /\ [][NextCap]_vars

---------------------------------------------------------------------------
(* SpecRace: the policy is updated while an email-data request and a        *)
(* negotiation are handled.  The store holds nothing (the default policy    *)
(* is read), an open policy or a strict one; the three differ in            *)
(* permissions and in redaction.                                            *)

RacePolicyOpen ==
    Policy(Some(TRUE), PredicateTypes, Some(FALSE), Some(FALSE), PopupPricing,
           Some(90), Some(50), Some(WalletValid), Some(TRUE), Some(TRUE))

RacePolicyStrict ==
    Policy(Some(TRUE), {"subscription"}, Some(TRUE), Some(TRUE), PopupPricing,
           Some(30), Some(10), Some(WalletValid), Some(FALSE), Some(FALSE))

RacePolicyInputs == {RacePolicyOpen, RacePolicyStrict}

RaceEmailInputs ==
    {[predicate |-> [type |-> type, maxAge |-> 30]] :
        type \in {"subscription", "delivery", "purchase"}}

RaceRequestInputs ==
    {NegotiationRequest(type, 60, 20, bodies, FALSE, InitialNow) :
        type \in {"subscription", "purchase"}, bodies \in BOOLEAN}

NextRace ==
    \/ handleUpdateUserPolicy(RacePolicyInputs)
    \/ requestEmailData(RaceEmailInputs)
    \/ handleEmailDataRequest_getUserPolicy(DataGuardAPI)
    \/ handleEmailDataRequest_fetchEmailData(DataGuardAPI, FetchInputs)
    \/ handleNegotiateRequest_start(RaceRequestInputs)
    \/ handleNegotiateRequest_getUserPolicy
    \/ handleNegotiateRequest_sendResponse

SpecRace == Init /\ [][NextRace]_vars

---------------------------------------------------------------------------
(* SpecIntercept: the content script.  MaxFetches email-data fetches are    *)
(* intercepted and the page calls window.DataGuard.requestEmailData, under  *)
(* the default policy (subscription allowed, purchase not); MaxPayments     *)
(* payments are processed.  Every handler that can take a step takes it in  *)
(* the end, and so does the 30 second timer; the user may never click.      *)

InterceptInputs ==
    {[predicate |-> [type |-> "subscription", maxAge |-> 90]],
     [predicate |-> [type |-> "purchase", maxAge |-> 30]]}

InterceptFetchInputs ==
    {[ok |-> TRUE, emails |-> ServiceEmails], [ok |-> FALSE, emails |-> <<>>]}

NextIntercept ==
    \/ \E f \in Fetches : interceptedFetch(f, InterceptInputs)
    \/ \E f \in Fetches : approveClick(f)
    \/ \E f \in Fetches : denyClick(f)
    \/ \E f \in Fetches : autoDeny(f)
    \/ \E f \in Fetches : interceptedFetch_response(f)
    \/ \E f \in Fetches : storeRequest_get(f)
    \/ \E f \in Fetches : storeRequest_set(f)
    \/ requestEmailData(InterceptInputs)
    \/ \E caller \in Callers : handleEmailDataRequest_getUserPolicy(caller)
    \/ \E caller \in Callers :
          handleEmailDataRequest_fetchEmailData(caller, InterceptFetchInputs)
    \/ \E p \in 1..MaxPayments : handleProcessPayment(p, {100})
    \/ \E p \in 1..MaxPayments : storePaymentRecord_get(p)
    \/ \E p \in 1..MaxPayments : storePaymentRecord_set(p)

SpecIntercept ==
    /\ Init
    /\ [][NextIntercept]_vars
    /\ \A f \in Fetches :
          /\ WF_vars(autoDeny(f))
          /\ WF_vars(interceptedFetch_response(f))
          /\ WF_vars(storeRequest_get(f))
          /\ WF_vars(storeRequest_set(f))
    /\ \A caller \in Callers :
          /\ WF_vars(handleEmailDataRequest_getUserPolicy(caller))
          /\ WF_vars(handleEmailDataRequest_fetchEmailData(caller, InterceptFetchInputs))
    /\ \A p \in 1..MaxPayments :
          /\ WF_vars(storePaymentRecord_get(p))
          /\ WF_vars(storePaymentRecord_set(p))

---------------------------------------------------------------------------
(* What the claims speak of *)

\* The policy the operation completed last has read.
PolicyRead == getUserPolicy(userPolicy)

IsNegotiation == outcome.op \in {"negotiateRequest", "NEGOTIATE_REQUEST"}

Request == outcome.request[1]

Result == outcome.result[1]

\* The recent request count the negotiation completed last has seen.
RequestCount == getRecentRequestCount(Request.predicateType, requestHistory, now)

\* The allow flag of a category, by the name of the field.
AllowFlag(type, policy) ==
    policy[[subscription |-> "allowSubscriptionProof",
            delivery     |-> "allowDeliveryProof",
            purchase     |-> "allowPurchaseProof",
            financial    |-> "allowFinancialProof"][type]]

\* The request asks for what the policy redacts.
PrivacyIncompatible(request, policy) ==
    \/ request.requestedData.includeBodies /\ Truthy(policy.redactEmailBodies)
    \/ request.requestedData.includePersonalInfo /\ Truthy(policy.redactPersonalInfo)

\* The negotiation got past the global and the category switch.
SwitchesPass(request, policy) ==
    /\ Truthy(policy.globalDataSharing)
    /\ request.predicateType \in PredicateTypes
    /\ Truthy(AllowFlag(request.predicateType, policy))

\* The price a negotiation result carries, if any.
CarriesPrice(result) == result.finalPrice # Undefined \/ result.counterOffer # Undefined

PriceCarried(result) ==
    IF result.finalPrice # Undefined THEN result.finalPrice[1]
    ELSE result.counterOffer[1].price

\* The price the policy configures for a category, if any.
ConfiguredPrice(type, policy) ==
    IF policy.pricing = Undefined THEN Undefined ELSE policy.pricing[1][type]

---------------------------------------------------------------------------
(* C1 *)

\* C1: under a policy whose globalDataSharing is not true, every negotiation,
\* by PolicyAgent.negotiateRequest and by the background worker's
\* simulateNegotiation, is denied, whatever the category.
C1_GlobalOffDeniesAll ==
    (IsNegotiation /\ ~Truthy(PolicyRead.globalDataSharing))
        => Result.accepted = FALSE

\* The worker denied a category the policy allows, only for the global switch.
C1_Witness ==
    /\ outcome.op = "NEGOTIATE_REQUEST"
    /\ PolicyRead.globalDataSharing = Some(FALSE)
    /\ Request.predicateType = "purchase"
    /\ Truthy(PolicyRead.allowPurchaseProof)
    /\ Result.accepted = FALSE
    /\ Result.reason = Some(ReasonGlobal)

---------------------------------------------------------------------------
(* C2 *)

\* C2: under a policy whose globalDataSharing is false the permission check
\* of the email-data path returns false, and the REQUEST_EMAIL_DATA message is
\* answered with an error and no records.
C2_GlobalOffRefusesEmailData ==
    (outcome.op = "REQUEST_EMAIL_DATA" /\ PolicyRead.globalDataSharing = Some(FALSE)) =>
        /\ ~Truthy(isRequestAllowed(Request, PolicyRead))
        /\ Result.error # Undefined
        /\ Result.data = Undefined

---------------------------------------------------------------------------
(* C3 *)

\* C3: with globalDataSharing true, each of the three permission checks
\* returns the category's allow flag for the four categories and false for
\* any other type.
C3_ChecksReturnAllowFlag ==
    Truthy(PolicyRead.globalDataSharing) =>
        \A type \in AllTypes :
            LET expected == IF type \in PredicateTypes
                            THEN AllowFlag(type, PolicyRead) ELSE Some(FALSE)
            IN  /\ isPredicateAllowed(type, PolicyRead) = expected
                /\ checkPredicateAllowed(type, PolicyRead) = expected
                /\ isRequestAllowed([predicate |-> [type |-> type, maxAge |-> 30]],
                                    PolicyRead) = expected

---------------------------------------------------------------------------
(* C4 *)

\* C4: a negotiation that asks for bodies under redactEmailBodies, or for
\* personal info under redactPersonalInfo, is never accepted; past the
\* global and category switches it is denied with a counter-offer.
C4_PrivacyIncompatibleNeverAccepted ==
    (IsNegotiation /\ PrivacyIncompatible(Request, PolicyRead)) =>
        /\ Result.accepted = FALSE
        /\ SwitchesPass(Request, PolicyRead) => Result.counterOffer # Undefined

---------------------------------------------------------------------------
(* C5 *)

\* C5: every accepted negotiation was made under a policy whose
\* walletAddress is present and is 0x followed by 40 hexadecimal characters.
C5_AcceptedOnlyWithValidWallet ==
    (IsNegotiation /\ Result.accepted) =>
        /\ PolicyRead.walletAddress # Undefined
        /\ validateWalletAddress(PolicyRead.walletAddress[1])

---------------------------------------------------------------------------
(* C6 *)

---------------------------------------------------------------------------
(* C7 *)

\* The multipliers as the pricing formula states them: demand in tenths,
\* 2.0 from ten recent requests on; privacy in tenths; volume in hundredths,
\* 1.0 up to ten emails and 2.0 from sixty on.
FormulaDemand(n) == IF n >= 10 THEN 20 ELSE 10 + n

FormulaPrivacy(data) ==
    CASE data.includeBodies /\ data.includePersonalInfo   -> 18
      [] data.includeBodies /\ ~data.includePersonalInfo  -> 15
      [] ~data.includeBodies /\ data.includePersonalInfo  -> 13
      [] OTHER                                            -> 10

FormulaVolume(data) ==
    IF data.maxEmails <= 10 THEN 100
    ELSE IF data.maxEmails >= 60 THEN 200
    ELSE 100 + 2 * (data.maxEmails - 10)

\* price is product / 10000 rounded to the nearest thousandth, a half upward.
IsRounded(price, product) ==
    /\ 2 * 10000 * price - 10000 <= 2 * product
    /\ 2 * product < 2 * 10000 * price + 10000

\* C7: the quote of PolicyAgent.negotiateRequest is basePrice x demand x
\* privacy x volume rounded to 3 decimal places, for the base price of the
\* requested category and the recent request count the negotiation saw; so
\* 15 recent requests at base 0.25 give 0.500 and 20 emails at base 0.05
\* give 0.060.
C7_QuoteFollowsFormula ==
    (outcome.op = "negotiateRequest" /\ CarriesPrice(Result)) =>
        LET basePrice == getBasePrice(Request.predicateType, PolicyRead)
            data      == Request.requestedData
            product   == basePrice * FormulaDemand(RequestCount)
                           * FormulaPrivacy(data) * FormulaVolume(data)
        IN  /\ IsRounded(PriceCarried(Result), product)
            /\ (basePrice = 250 /\ RequestCount = 15 /\ data.maxEmails <= 10
                  /\ ~data.includeBodies /\ ~data.includePersonalInfo)
                  => PriceCarried(Result) = 500
            /\ (basePrice = 50 /\ RequestCount = 0 /\ data.maxEmails = 20
                  /\ ~data.includeBodies /\ ~data.includePersonalInfo)
                  => PriceCarried(Result) = 60

\* Fifteen purchase requests were recorded in the last hour and a purchase
\* request with no privacy flag and ten emails was accepted at base 0.25.
C7_Witness ==
    /\ outcome.op = "negotiateRequest"
    /\ Result.accepted
    /\ Request.predicateType = "purchase"
    /\ RequestCount = 15
    /\ getBasePrice("purchase", PolicyRead) = 250
    /\ Request.requestedData.maxEmails = 10
    /\ ~Request.requestedData.includeBodies
    /\ ~Request.requestedData.includePersonalInfo
    /\ Result.finalPrice = Some(500)

---------------------------------------------------------------------------
(* C8 *)

\* request2 asks for at least what request1 asks for: the same category,
\* no fewer emails, and every privacy flag request1 sets.
AsksNoLess(request1, request2) ==
    /\ request2.predicateType = request1.predicateType
    /\ request2.requestedData.maxEmails >= request1.requestedData.maxEmails
    /\ request1.requestedData.includeBodies => request2.requestedData.includeBodies
    /\ request1.requestedData.includePersonalInfo
          => request2.requestedData.includePersonalInfo

\* The quotes of the two pricing paths for a request under the stored policy
\* and the recorded history.
AgentQuote(request) ==
    calculateDynamicPrice(request, getBasePrice(request.predicateType, PolicyRead),
                          requestHistory, now)

WorkerQuote(request) ==
    bg_calculateDynamicPrice(request, bg_getBasePrice(request.predicateType, PolicyRead))

\* C8: pricing is monotonic: under one policy and one history, asking for
\* more emails, for bodies or for personal info never lowers the price, in
\* either pricing path.
C8_PricingMonotonic ==
    \A request1 \in PriceRequestInputs, request2 \in PriceRequestInputs :
        AsksNoLess(request1, request2) =>
            /\ AgentQuote(request1) <= AgentQuote(request2)
            /\ WorkerQuote(request1) <= WorkerQuote(request2)

---------------------------------------------------------------------------
(* C9 *)

\* C9: every price a negotiation result carries, as finalPrice or in a
\* counter-offer, is non-negative.  (Prices are whole thousandths in this
\* model.)
C9_PriceNonNegative ==
    (IsNegotiation /\ CarriesPrice(Result)) => PriceCarried(Result) >= 0

---------------------------------------------------------------------------
(* C10 *)

\* C10: when the policy configures a zero or negative price for the
\* requested category, a negotiation past the global and category switches
\* is denied and quotes no price.
C10_UnsetPriceDenied ==
    (/\ IsNegotiation
     /\ SwitchesPass(Request, PolicyRead)
     /\ ConfiguredPrice(Request.predicateType, PolicyRead) # Undefined
     /\ ConfiguredPrice(Request.predicateType, PolicyRead)[1] <= 0) =>
        /\ Result.accepted = FALSE
        /\ ~CarriesPrice(Result)

---------------------------------------------------------------------------
(* C11 *)

\* C11: every negotiation, by PolicyAgent.negotiateRequest and by the
\* worker's NEGOTIATE_REQUEST handler, appends exactly one entry for the
\* category of its request to the ledger, whether it accepts or denies.
C11_NegotiationAppendsEntry ==
    [][outcome'.op \in {"negotiateRequest", "NEGOTIATE_REQUEST"} =>
          LET type == outcome'.request[1].predicateType
          IN  Len(requestHistory'[type]) = Len(requestHistory[type]) + 1]_vars

---------------------------------------------------------------------------
(* C12 *)

\* The instant lies in the trailing hour; an instant exactly one hour back
\* does not.
WithinTrailingHour(timestamp) == now - OneHour < timestamp /\ timestamp <= now

\* A scan of entries, one after the other, for the requests of a category
\* in the trailing hour.
RECURSIVE LinearScan(_, _)
LinearScan(entries, category) ==
    IF entries = <<>> THEN 0
    ELSE (IF /\ Head(entries).predicateType = category
             /\ WithinTrailingHour(Head(entries).timestamp)
          THEN 1 ELSE 0) + LinearScan(Tail(entries), category)

\* Every retained entry of the ledger, of whatever category.
RetainedEntries ==
    requestHistory["subscription"] \o requestHistory["delivery"]
        \o requestHistory["purchase"] \o requestHistory["financial"]
        \o requestHistory[UnknownType]

\* C12: the recent count that prices a category is the number of retained
\* entries of that category in the trailing hour, and the quote of a
\* negotiation is the one that count gives: entries of other categories and
\* entries an hour old or older change neither.
C12_RecentCountIsWindowScan ==
    /\ \A category \in PredicateTypes :
          getRecentRequestCount(category, requestHistory, now)
              = LinearScan(RetainedEntries, category)
    /\ (outcome.op = "negotiateRequest" /\ CarriesPrice(Result)) =>
          LET basePrice == getBasePrice(Request.predicateType, PolicyRead)
              data      == Request.requestedData
              count     == LinearScan(RetainedEntries, Request.predicateType)
          IN  IsRounded(PriceCarried(Result),
                        basePrice * FormulaDemand(count)
                            * FormulaPrivacy(data) * FormulaVolume(data))

\* A purchase was quoted at 0.25 x 1.1 while the ledger held two purchase
\* requests, one of them an hour old or older, and a subscription request of
\* the trailing hour.
C12_Witness ==
    /\ outcome.op = "negotiateRequest"
    /\ Request.predicateType = "purchase"
    /\ Result.finalPrice = Some(275)
    /\ Len(requestHistory["purchase"]) = 2
    /\ requestHistory["purchase"][1].timestamp <= now - OneHour
    /\ requestHistory["purchase"][2].timestamp > now - OneHour
    /\ \E i \in DOMAIN requestHistory["subscription"] :
          requestHistory["subscription"][i].timestamp > now - OneHour

---------------------------------------------------------------------------
(* C13 *)

\* C13: recording a request changes the sequence of its category only: it
\* appends the request, after the oldest entry has left if the sequence
\* held 100, so that each sequence holds at most 100 entries, the most
\* recently recorded ones in recording order.
C13_LedgerKeepsNewest100 ==
    [][\A category \in AllTypes :
          LET old == requestHistory[category]
              new == requestHistory'[category]
          IN  \/ new = old
              \/ /\ outcome'.op = "recordRequest"
                 /\ outcome'.request[1].predicateType = category
                 /\ new = (IF Len(old) >= 100 THEN Tail(old) ELSE old)
                              \o <<outcome'.request[1]>>
                 /\ Len(new) <= 100
                 /\ \A other \in AllTypes \ {category} :
                       requestHistory'[other] = requestHistory[other]]_vars

\* The 101st and the 102nd purchase request have been recorded, a
\* subscription request among them: the purchase sequence holds 100.
C13_Witness ==
    /\ outcome.op = "recordRequest"
    /\ Request.predicateType = "purchase"
    /\ now = InitialNow + HistoryCap + 2
    /\ Len(requestHistory["subscription"]) = 1
    /\ Len(requestHistory["purchase"]) = 100
    /\ requestHistory["purchase"][100] = Request
    /\ requestHistory["purchase"][1].timestamp > InitialNow + 1

---------------------------------------------------------------------------
(* C14 *)

\* C14: every stored entry marked approved belongs to a request that was
\* accepted: the user approved it and the worker released records for it.  A
\* request denied by the user, by the timer or by the policy leaves no entry
\* marked approved.
C14_ApprovedEntryWasAccepted ==
    \A i \in DOMAIN recentRequests :
        recentRequests[i].approved =>
            LET f == recentRequests[i].fetch
            IN  /\ intercepts[f].resolvedBy = Some("approve")
                /\ emailCalls[f].pc = "done"
                /\ Truthy(emailCalls[f].response[1].success)
                /\ intercepts[f].response[1].status = 200

\* The user approved a purchase request that the policy refused, and denied
\* another request: the store holds the denied entry and none for the
\* refused one.
C14_Witness ==
    /\ intercepts[1].resolvedBy = Some("approve")
    /\ intercepts[1].pc = "returned"
    /\ intercepts[1].response[1].status = 403
    /\ intercepts[2].resolvedBy = Some("deny")
    /\ intercepts[2].store = "done"
    /\ recentRequests # <<>>
    /\ \A i \in DOMAIN recentRequests :
          recentRequests[i].fetch = 2 /\ ~recentRequests[i].approved

---------------------------------------------------------------------------
(* C15 *)

\* C15: concurrent appends lose nothing: once the payments have finished,
\* paymentHistory holds the record of each, and once no store of an
\* intercepted request is in flight, recentRequests holds an entry for each
\* request that stored one.
C15_ConcurrentAppendsKeepEntries ==
    /\ (\A p \in 1..MaxPayments : payments[p].pc \in {"idle", "done"}) =>
          \A p \in 1..MaxPayments :
              payments[p].pc = "done" =>
                  \E i \in DOMAIN paymentHistory : paymentHistory[i].requestId = p
    /\ (\A f \in Fetches : intercepts[f].store \in {"none", "done"}) =>
          \A f \in Fetches :
              intercepts[f].store = "done" =>
                  \E i \in DOMAIN recentRequests : recentRequests[i].fetch = f

---------------------------------------------------------------------------
(* C16 *)

\* The policies the store can hold in SpecRace, as getUserPolicy reads them.
RacePolicies == {getDefaultPolicy} \cup RacePolicyInputs

\* C16: the response of an email-data request and the result of a
\* negotiation are those of one single policy value, whatever updates of the
\* policy are processed while the request is handled.
C16_OnePolicyPerRequest ==
    /\ emailCalls[DataGuardAPI].pc = "done" =>
          LET call    == emailCalls[DataGuardAPI]
              fetched == IF call.fetched = Undefined
                         THEN [ok |-> FALSE, emails |-> <<>>] ELSE call.fetched[1]
          IN  \E policy \in RacePolicies :
                  call.response[1]
                      = EmailDataResponse(call.request[1], policy, fetched, now)
    /\ negotiateCall.pc = "done" =>
          \E policy \in RacePolicies :
              negotiateCall.response[1]
                  = simulateNegotiation(negotiateCall.request[1], policy)

\* The strict policy was stored while a delivery request, allowed under the
\* open policy, awaited its records; the records were then released
\* unredacted, as the open policy has it.
C16_Witness ==
    /\ emailCalls[DataGuardAPI].pc = "done"
    /\ emailCalls[DataGuardAPI].request[1].predicate.type = "delivery"
    /\ emailCalls[DataGuardAPI].policy = Some(RacePolicyOpen)
    /\ userPolicy = Some(RacePolicyStrict)
    /\ Truthy(emailCalls[DataGuardAPI].response[1].success)
    /\ emailCalls[DataGuardAPI].response[1].data # Some(<<>>)
    /\ negotiateCall.pc = "sendResponse"
    /\ negotiateCall.policy = Some(RacePolicyOpen)

---------------------------------------------------------------------------
(* C17 *)

\* C17: every intercepted fetch whose approval prompt is shown returns a
\* response to the page in the end.
C17_InterceptedFetchReturns ==
    \A f \in Fetches :
        (intercepts[f].pc = "prompt") ~> (intercepts[f].pc = "returned")

---------------------------------------------------------------------------
(* C18 *)

\* C18: REQUEST_EMAIL_DATA reaches the worker only for an intercepted fetch
\* the user approved, and a denied or timed-out fetch returns the empty
\* list.
C18_RecordsOnlyAfterApproval ==
    /\ \A caller \in Callers :
          emailCalls[caller].pc # "idle" =>
              /\ caller \in Fetches
              /\ intercepts[caller].resolvedBy = Some("approve")
    /\ \A f \in Fetches :
          intercepts[f].approved = Some(FALSE) =>
              intercepts[f].response[1].data = Some(<<>>)

---------------------------------------------------------------------------
(* C19 *)

\* C19: when the fetch from the data source fails, the caller of the
\* email-data request receives no success response.
C19_FetchFailureIsReported ==
    \A caller \in Callers :
        (/\ emailCalls[caller].pc = "done"
         /\ emailCalls[caller].fetched # Undefined
         /\ ~emailCalls[caller].fetched[1].ok) =>
            ~Truthy(emailCalls[caller].response[1].success)

---------------------------------------------------------------------------
(* C20 *)

Malformed(request) ==
    \/ request.predicateType \notin PredicateTypes
    \/ request.requestedData.maxAge < 0
    \/ request.requestedData.maxEmails < 0

\* C20: a negotiation request with an unknown category or a negative maxAge
\* or maxEmails is never accepted and gets no adjusted policy.
C20_MalformedRequestRejected ==
    (IsNegotiation /\ Malformed(Request)) =>
        /\ Result.accepted = FALSE
        /\ Result.adjustedPolicy = Undefined

---------------------------------------------------------------------------
(* C21 *)

\* validatePolicy(): the errors the popup finds in the values savePolicy goes
\* on to send.  Prices are in thousandths of the form's dollars; an empty
\* input is read as 0.  The form's requestTimeout is not a field of Policy.
validatePolicy(policy) ==
    LET Number(value) == IF value = Undefined THEN 0 ELSE value[1]
        PriceErrors(type, name) ==
            LET numValue == IF policy.pricing = Undefined THEN 0
                            ELSE Number(policy.pricing[1][type])
            IN  IF numValue < 0 \/ numValue > 100 * 1000 THEN {name} ELSE {}
        maxAge    == Number(policy.maxEmailAge)
        maxEmails == Number(policy.maxEmailsPerRequest)
    IN  (IF /\ policy.walletAddress # Undefined
            /\ policy.walletAddress[1] # <<>>
            /\ ~validateWalletAddress(policy.walletAddress[1])
         THEN {"Invalid wallet address format"} ELSE {})
        \cup PriceErrors("subscription", "Subscription price must be between $0 and $100")
        \cup PriceErrors("delivery", "Delivery price must be between $0 and $100")
        \cup PriceErrors("purchase", "Purchase price must be between $0 and $100")
        \cup PriceErrors("financial", "Financial price must be between $0 and $100")
        \cup (IF maxAge < 1 \/ maxAge > 365
              THEN {"Max email age must be between 1 and 365 days"} ELSE {})
        \cup (IF maxEmails < 1 \/ maxEmails > 100
              THEN {"Max emails per request must be between 1 and 100"} ELSE {})

\* C21: a policy that fails validation is never stored: whenever an
\* UPDATE_USER_POLICY message has been handled, the stored policy has no
\* validation error.
C21_InvalidPolicyNeverStored ==
    (outcome.op = "UPDATE_USER_POLICY" /\ userPolicy # Undefined) =>
        validatePolicy(userPolicy[1]) = {}

---------------------------------------------------------------------------
(* SpecScenario: a plain request under a sparse policy.  The policies give  *)
(* the five fields of the specification's Scenario A and, some of them, a   *)
(* wallet address; every other field is absent.  Delivery requests are      *)
(* recorded with the instant they are recorded at, up to MaxDemand of them, *)
(* and an hour may pass, after which they are no recent demand any more.    *)

MaxDemand == 2

\* { globalDataSharing: true, allowDeliveryProof: true,
\*   pricing: { delivery }, maxEmailsPerRequest: 10, redactEmailBodies },
\* with or without a walletAddress.
ScenarioPolicy(delivery, redact, wallet) ==
    [field \in DOMAIN getDefaultPolicy |->
        CASE field = "globalDataSharing"   -> Some(TRUE)
          [] field = "allowDeliveryProof"  -> Some(TRUE)
          [] field = "pricing"             ->
                 Pricing(Undefined, delivery, Undefined, Undefined)
          [] field = "maxEmailsPerRequest" -> Some(10)
          [] field = "redactEmailBodies"   -> redact
          [] field = "walletAddress"       -> wallet
          [] OTHER                         -> Undefined]

ScenarioPolicyInputs ==
    {ScenarioPolicy(delivery, redact, wallet) :
        delivery \in {Some(100), Some(250)},
        redact \in {Some(TRUE), Some(FALSE)},
        wallet \in {Undefined, Some(WalletValid), Some(WalletShort)}}

\* { predicateType: 'delivery', requestedData: { maxAge: 30, maxEmails: 10,
\*   includeBodies: false, includePersonalInfo: false } }
ScenarioRequest == NegotiationRequest("delivery", 30, 10, FALSE, FALSE, InitialNow)

ScenarioRequestInputs ==
    {NegotiationRequest(type, 30, maxEmails, bodies, FALSE, InitialNow) :
        type \in {"delivery", "purchase"}, maxEmails \in {10, 25},
        bodies \in BOOLEAN}

ScenarioRecordInputs == {NegotiationRequest("delivery", 30, 10, FALSE, FALSE, now)}

NextScenario ==
    \/ handleUpdateUserPolicy(ScenarioPolicyInputs)
    \/ recordRequest(ScenarioRecordInputs, MaxDemand)
    \/ Tick(OneHour, InitialNow + OneHour)
    \/ PolicyAgentNegotiate(ScenarioRequestInputs)

SpecScenario == Init /\ [][NextScenario]_vars

---------------------------------------------------------------------------
(* C22 *)

\* The negotiation completed last was PolicyAgent's, of a request that the
\* global and the category switch let pass, that asks for no bodies and no
\* personal info and for at most ten emails, with no request of its
\* category in the trailing hour.
PlainRequest ==
    /\ outcome.op = "negotiateRequest"
    /\ SwitchesPass(Request, PolicyRead)
    /\ ~PrivacyIncompatible(Request, PolicyRead)
    /\ ~Request.requestedData.includeBodies
    /\ ~Request.requestedData.includePersonalInfo
    /\ Request.requestedData.maxEmails <= baseEmails
    /\ RequestCount = 0

AcceptedAtBasePrice ==
    /\ Result.accepted
    /\ Result.finalPrice = Some(getBasePrice(Request.predicateType, PolicyRead))

\* C22 as stated: a plain request that passes the permission and the privacy
\* checks is accepted at exactly the base price, and so is the request of
\* Scenario A under the policy of Scenario A, which has no wallet address.
C22_PlainRequestAcceptedAtBasePrice ==
    PlainRequest => AcceptedAtBasePrice

\* C22 amended: a plain request that passes the permission, the privacy and
\* the wallet check is accepted at exactly the base price; the request of
\* Scenario A under the policy of Scenario A with a valid wallet address is
\* accepted at 0.10.
C22_PlainRequestPastWalletAtBasePrice ==
    /\ (PlainRequest /\ ~WalletInvalid(PolicyRead)) => AcceptedAtBasePrice
    /\ (/\ outcome.op = "negotiateRequest"
        /\ Request = ScenarioRequest
        /\ PolicyRead = ScenarioPolicy(Some(100), Some(TRUE), Some(WalletValid))
        /\ RequestCount = 0)
       => (Result.accepted /\ Result.finalPrice = Some(100))

\* Scenario A with a wallet address, after an earlier request has left the
\* trailing hour: accepted at 0.10.
C22_Witness ==
    /\ outcome.op = "negotiateRequest"
    /\ Request = ScenarioRequest
    /\ PolicyRead = ScenarioPolicy(Some(100), Some(TRUE), Some(WalletValid))
    /\ requestHistory["delivery"] # <<>>
    /\ RequestCount = 0
    /\ Result.accepted
    /\ Result.finalPrice = Some(100)

---------------------------------------------------------------------------
(* MailService *)

\* normalizeEmailData(): a missing subject, sender or type gets its default.
normalizeEmailData(emails) ==
    [i \in 1..Len(emails) |->
        [emails[i] EXCEPT
            !.subject = IF @ = <<>> THEN <<"No Subject">> ELSE @,
            !.sender  = IF @ = <<>> THEN <<"Unknown Sender">> ELSE @,
            !.type    = IF @ = Undefined THEN Some("general") ELSE @]]

\* getEmails(): the normalized answer of the service, or the empty
\* fallbackData when the fetch fails.
getEmails(fetched) ==
    IF fetched.ok THEN normalizeEmailData(fetched.emails) ELSE <<>>

isNewsletterSender(sender) ==
    LET newsletterDomains == {"newsletter", "digest", "weekly", "monthly", "updates"}
        senderLower == toLowerCase(sender)
    IN  \E domain \in newsletterDomains : includes(senderLower, domain)

isSubscriptionEmail(email) ==
    LET subscriptionKeywords ==
            {"unsubscribe", "subscription", "newsletter", "digest", "weekly", "monthly"}
        subjectLower == toLowerCase(email.subject)
        senderLower  == toLowerCase(email.sender)
    IN  \/ email.type = Some("subscription")
        \/ \E keyword \in subscriptionKeywords :
              includes(subjectLower, keyword) \/ includes(senderLower, keyword)
        \/ isNewsletterSender(email.sender)

\* isDeliveryEmail going by the tag alone.
isDeliveryEmail_tagOnly(email) == email.type = Some("delivery")

isDeliveryEmail(email) ==
    LET deliveryKeywords ==
            {"delivered", "delivery", "shipped", "tracking", "package", "parcel"}
        deliverySenders ==
            {"amazon", "dhl", "ups", "fedex", "usps", "flipkart", "myntra"}
        subjectLower == toLowerCase(email.subject)
        senderLower  == toLowerCase(email.sender)
    IN  \/ email.type = Some("delivery")
        \/ \E keyword \in deliveryKeywords : includes(subjectLower, keyword)
        \/ \E sender \in deliverySenders : includes(senderLower, sender)

isPurchaseEmail(email) ==
    LET purchaseKeywords ==
            {"order", "receipt", "invoice", "payment", "purchase", "billing"}
        subjectLower == toLowerCase(email.subject)
    IN  \/ email.type = Some("purchase")
        \/ \E keyword \in purchaseKeywords : includes(subjectLower, keyword)

\* MailService.filterEmailsByPredicate
MailService_filterEmailsByPredicate(emails, predicate, t) ==
    LET cutoffDate == t - predicate.maxAge * OneDay
        Keep(email) ==
            IF email.date < cutoffDate THEN FALSE
            ELSE CASE predicate.type = "subscription" -> isSubscriptionEmail(email)
                   [] predicate.type = "delivery"     -> isDeliveryEmail(email)
                   [] predicate.type = "purchase"     -> isPurchaseEmail(email)
                   [] OTHER                           -> FALSE
    IN  SelectSeq(emails, Keep)

\* MailService.getEmailsByPredicate: getEmails(), then the filter.  The outcome
\* keeps what fetch() produced.
getEmailsByPredicate(predicates, fetches) ==
    \E predicate \in predicates, fetched \in fetches :
        /\ outcome' = [op |-> "getEmailsByPredicate",
                       request |-> Some([predicate |-> predicate]),
                       result |-> Some([data |-> Some(
                           MailService_filterEmailsByPredicate(
                               getEmails(fetched), predicate, now))]),
                       fetched |-> Some(fetched)]
        /\ UNCHANGED <<userPolicy, requestHistory, now, asyncVars>>

---------------------------------------------------------------------------
(* SpecFilter: selection and redaction.  The mail service answers with one  *)
(* record out of FilterEmails, with a batch of four, with nothing, or not   *)
(* at all; records are seven or eight days old (two in the batch), tagged   *)
(* or not, with and without keywords.  The worker's handler and MailService *)
(* both select from the answer; the policies differ in what they redact and *)
(* in maxEmailsPerRequest.                                                  *)

FilterSubjects ==
    {<<"Hello">>,
     <<"Was ", "Delivered">>,
     <<"Your ", "Order", " ", "receipt">>,
     <<"Weekly", " ", "Newsletter">>}

FilterSenders ==
    {<<"friend@example.com">>,
     <<"noreply@", "Amazon", ".com">>,
     <<"digest", "@news.example.com">>}

FilterAges == {7, 8}

FilterTags ==
    {Undefined, Some("subscription"), Some("delivery"), Some("purchase"),
     Some("financial")}

FilterEmails ==
    {Email("m", subject, sender, InitialNow - age * OneDay, <<"body m">>, tag) :
        subject \in FilterSubjects, sender \in FilterSenders,
        age \in FilterAges, tag \in FilterTags}

FilterBatch ==
    <<Email("1", <<"Was ", "Delivered">>, <<"noreply@", "Amazon", ".com">>,
            InitialNow - 2 * OneDay, <<"body 1">>, Some("delivery")),
      Email("2", <<"Was ", "Delivered">>, <<"noreply@", "Amazon", ".com">>,
            InitialNow - 8 * OneDay, <<"body 2">>, Some("delivery")),
      Email("3", <<"Hello">>, <<"friend@example.com">>,
            InitialNow - 7 * OneDay, <<"body 3">>, Some("delivery")),
      Email("4", <<"Your ", "Order", " ", "receipt">>, <<"friend@example.com">>,
            InitialNow - 2 * OneDay, <<"body 4">>, Undefined)>>

FilterFetchInputs ==
    {[ok |-> TRUE, emails |-> <<email>>] : email \in FilterEmails}
    \cup {[ok |-> TRUE, emails |-> FilterBatch],
          [ok |-> TRUE, emails |-> <<>>],
          [ok |-> FALSE, emails |-> <<>>]}

FilterPredicates ==
    {[type |-> type, maxAge |-> 7] : type \in AllTypes}
    \cup {[type |-> "delivery", maxAge |-> 30]}

FilterRequestInputs == {[predicate |-> predicate] : predicate \in FilterPredicates}

\* One policy redacts bodies and senders and releases one email per
\* request, the other redacts subjects only.
FilterPolicyInputs ==
    {Policy(Some(TRUE), PredicateTypes, Some(TRUE), Some(TRUE), PopupPricing,
            Some(30), Some(1), Some(WalletValid), Some(FALSE), Some(TRUE)),
     Policy(Some(TRUE), PredicateTypes, Some(FALSE), Some(FALSE), PopupPricing,
            Some(30), Some(10), Some(WalletValid), Some(TRUE), Some(FALSE))}

NextFilter ==
    \/ handleUpdateUserPolicy(FilterPolicyInputs)
    \/ handleEmailDataRequest(FilterRequestInputs, FilterFetchInputs)
    \/ getEmailsByPredicate(FilterPredicates, FilterFetchInputs)

SpecFilter == Init /\ [][NextFilter]_vars

---------------------------------------------------------------------------
(* C23 *)

\* The operation completed last selected records: the worker's handler that
\* got past the permission check, or MailService.getEmailsByPredicate.
IsSelection ==
    /\ outcome.op \in {"REQUEST_EMAIL_DATA", "getEmailsByPredicate"}
    /\ Result.data # Undefined

Predicate == Request.predicate

Released == Result.data[1]

\* The records the selection chose from: the answer of the mail service, or
\* the worker's two mock records when its fetch failed.
Candidates ==
    IF outcome.fetched[1].ok THEN outcome.fetched[1].emails
    ELSE IF outcome.op = "REQUEST_EMAIL_DATA"
         THEN getMockEmailData([type |-> Predicate.type, maxAge |-> 365], now)
         ELSE <<>>

OlderThan(email, days) == email.date < now - days * OneDay

IsReleased(email) == \E i \in 1..Len(Released) : Released[i].id = email.id

\* C23: a record older than predicate.maxAge days is not among the records
\* selected, whatever its category, subject and sender.
C23_OldRecordNotSelected ==
    IsSelection =>
        /\ \A i \in 1..Len(Released) : ~OlderThan(Released[i], Predicate.maxAge)
        /\ \A i \in 1..Len(Candidates) :
              OlderThan(Candidates[i], Predicate.maxAge) => ~IsReleased(Candidates[i])

\* A delivery request finds one record, eight days old, that is tagged as
\* delivery and has a delivery keyword and a delivery sender, and selects
\* nothing.
C23_Witness ==
    /\ IsSelection
    /\ outcome.op = "REQUEST_EMAIL_DATA"
    /\ Predicate = [type |-> "delivery", maxAge |-> 7]
    /\ outcome.fetched[1].ok
    /\ Len(Candidates) = 1
    /\ Candidates[1].type = Some("delivery")
    /\ Candidates[1].subject = <<"Was ", "Delivered">>
    /\ Candidates[1].sender = <<"noreply@", "Amazon", ".com">>
    /\ OlderThan(Candidates[1], 7)
    /\ Released = <<>>

---------------------------------------------------------------------------
(* C24 *)

\* The fixed lists: the words looked for in the subject and in the sender,
\* by implementation and category.  The worker and MailService have lists of
\* their own.
SubjectWords(op, category) ==
    IF op = "REQUEST_EMAIL_DATA"
    THEN CASE category = "subscription" -> {"unsubscribe", "subscription", "newsletter"}
           [] category = "delivery"     -> {"delivered", "delivery"}
           [] category = "purchase"     -> {"order", "receipt", "payment"}
    ELSE CASE category = "subscription" ->
                  {"unsubscribe", "subscription", "newsletter", "digest", "weekly",
                   "monthly"}
           [] category = "delivery"     ->
                  {"delivered", "delivery", "shipped", "tracking", "package", "parcel"}
           [] category = "purchase"     ->
                  {"order", "receipt", "invoice", "payment", "purchase", "billing"}

SenderWords(op, category) ==
    IF op = "REQUEST_EMAIL_DATA"
    THEN CASE category = "delivery" -> {"amazon", "dhl", "ups"}
           [] OTHER                 -> {}
    ELSE CASE category = "subscription" ->
                  {"unsubscribe", "subscription", "newsletter", "digest", "weekly",
                   "monthly", "updates"}
           [] category = "delivery"     ->
                  {"amazon", "dhl", "ups", "fedex", "usps", "flipkart", "myntra"}
           [] OTHER                     -> {}

ContainsAny(text, words) == \E i \in 1..Len(text) : toLowerCase(text)[i] \in words

Classified(email, category) ==
    /\ category \in {"subscription", "delivery", "purchase"}
    /\ \/ email.type = Some(category)
       \/ ContainsAny(email.subject, SubjectWords(outcome.op, category))
       \/ ContainsAny(email.sender, SenderWords(outcome.op, category))

\* C24: a record inside the age window is selected exactly when its tag
\* equals the predicate's category or, else, its subject or sender holds one
\* of the category's fixed words; a financial or unknown category selects
\* no record.
C24_ClassifiedByTagThenKeywords ==
    (IsSelection /\ outcome.fetched[1].ok) =>
        \A i \in 1..Len(Candidates) :
            ~OlderThan(Candidates[i], Predicate.maxAge) =>
                (IsReleased(Candidates[i]) <=> Classified(Candidates[i], Predicate.type))

\* MailService selects an untagged record inside the window for its
\* delivery sender alone.
C24_Witness ==
    /\ IsSelection
    /\ outcome.op = "getEmailsByPredicate"
    /\ outcome.fetched[1].ok
    /\ Len(Candidates) = 1
    /\ ~OlderThan(Candidates[1], Predicate.maxAge)
    /\ Predicate.type = "delivery"
    /\ Candidates[1].type = Undefined
    /\ Candidates[1].subject = <<"Hello">>
    /\ Candidates[1].sender = <<"noreply@", "Amazon", ".com">>
    /\ Len(Released) = 1

---------------------------------------------------------------------------
(* C25 *)

\* The worker's handler completed last and released records.
IsRelease == IsSelection /\ outcome.op = "REQUEST_EMAIL_DATA"

HasOriginal(record) == \E i \in 1..Len(Candidates) : Candidates[i].id = record.id

Original(record) ==
    Candidates[CHOOSE i \in 1..Len(Candidates) : Candidates[i].id = record.id]

\* One released record against the record it was made from, field by field.
RedactedPerField(record, original, policy) ==
    /\ record.body = (IF policy.redactEmailBodies = Some(TRUE)
                      THEN REDACTED ELSE original.body)
    /\ record.subject = (IF policy.showSubjectInfo = Some(TRUE)
                         THEN original.subject ELSE REDACTED)
    /\ record.sender = (IF policy.showSenderInfo = Some(TRUE)
                        THEN original.sender ELSE REDACTED)
    /\ record.id = original.id
    /\ record.date = original.date
    /\ record.type = original.type

\* C25: every released record has the marker for its body exactly when
\* redactEmailBodies is true, its original subject exactly when
\* showSubjectInfo is true, its original sender exactly when showSenderInfo is
\* true, each whatever the other two settings, and its id, date and type
\* unchanged.
C25_RedactionPerField ==
    IsRelease =>
        \A i \in 1..Len(Released) :
            /\ HasOriginal(Released[i])
            /\ RedactedPerField(Released[i], Original(Released[i]), PolicyRead)
            /\ Released[i].body = REDACTED <=> PolicyRead.redactEmailBodies = Some(TRUE)
            /\ Released[i].subject # REDACTED <=> PolicyRead.showSubjectInfo = Some(TRUE)
            /\ Released[i].sender # REDACTED <=> PolicyRead.showSenderInfo = Some(TRUE)

\* Scenario E: three records released under showSenderInfo false,
\* redactEmailBodies true and showSubjectInfo true have their subjects, and
\* the marker for sender and body.
C25_Witness ==
    /\ IsRelease
    /\ PolicyRead.showSenderInfo = Some(FALSE)
    /\ PolicyRead.redactEmailBodies = Some(TRUE)
    /\ PolicyRead.showSubjectInfo = Some(TRUE)
    /\ Len(Released) = 3
    /\ \A i \in 1..3 :
          /\ Released[i].subject = Original(Released[i]).subject
          /\ Released[i].sender = REDACTED
          /\ Released[i].body = REDACTED

---------------------------------------------------------------------------
(* C26 *)

\* The released records are a subsequence of the candidates: the positions
\* of their originals grow.
KeepsOrder ==
    \A i, j \in 1..Len(Released) :
        i < j =>
            \E k, l \in 1..Len(Candidates) :
                /\ k < l
                /\ Candidates[k].id = Released[i].id
                /\ Candidates[l].id = Released[j].id

\* C26: a data request releases at most policy.maxEmailsPerRequest records,
\* in the relative order they were fetched in.
C26_AtMostMaxEmailsInOrder ==
    IsRelease =>
        /\ PolicyRead.maxEmailsPerRequest # Undefined =>
              Len(Released) <= PolicyRead.maxEmailsPerRequest[1]
        /\ KeepsOrder

---------------------------------------------------------------------------
(* SpecPayments: payments one after the other.  PROCESS_PAYMENT messages    *)
(* are numbered as they arrive, PaymentCap + MaxEvicted of them, and each   *)
(* arrives when the one before has been answered.                           *)

MaxEvicted == 2

Arrivals == 1..(PaymentCap + MaxEvicted)

InitPayments ==
    /\ userPolicy = Undefined
    /\ requestHistory = [type \in AllTypes |-> <<>>]
    /\ now = InitialNow
    /\ outcome = NoOutcome
    /\ emailCalls = [caller \in Callers |-> IdleCall]
    /\ negotiateCall = IdleNegotiation
    /\ intercepts = [f \in Fetches |-> IdleIntercept]
    /\ notification = 0
    /\ recentRequests = <<>>
    /\ payments = [p \in Arrivals |-> IdlePayment]
    /\ paymentHistory = <<>>
    /\ installation = IdleInstallation

NextPayments ==
    \E p \in Arrivals :
        \/ /\ \A q \in Arrivals : q < p => payments[q].pc = "done"
           /\ handleProcessPayment(p, {100})
        \/ storePaymentRecord_get(p)
        \/ storePaymentRecord_set(p)

SpecPayments == InitPayments /\ [][NextPayments]_vars

---------------------------------------------------------------------------
(* C28 *)

\* The last n elements of a sequence, or all of it.
Newest(records, n) ==
    IF Len(records) > n THEN SubSeq(records, Len(records) - n + 1, Len(records))
    ELSE records

\* Payment p is answered in this step.
Answered(p) == payments[p].pc = "set" /\ payments'[p].pc = "done"

\* C28: paymentHistory holds the most recent records in processing order, at
\* most 50 of them: each payment that is answered leaves the history it found
\* with its own record appended and, above 50, the oldest record evicted.
C28_HistoryKeepsNewest50 ==
    [][\A p \in DOMAIN payments :
          Answered(p) =>
              /\ Len(paymentHistory') <= PaymentCap
              /\ paymentHistory' =
                    Newest(Append(paymentHistory, PaymentRecord(p)),
                           PaymentCap)]_vars

---------------------------------------------------------------------------
(* C29 *)

\* The reason of the first check that fails, in the order global sharing,
\* category permission, bodies, personal info, wallet; Undefined if none
\* fails.
FirstFailure(request, policy) ==
    IF policy.globalDataSharing # Some(TRUE) THEN Some(ReasonGlobal)
    ELSE IF \/ request.predicateType \notin PredicateTypes
            \/ AllowFlag(request.predicateType, policy) # Some(TRUE)
         THEN Some(ReasonAccess(request.predicateType))
    ELSE IF /\ request.requestedData.includeBodies
            /\ policy.redactEmailBodies = Some(TRUE)
         THEN Some(ReasonBodies)
    ELSE IF /\ request.requestedData.includePersonalInfo
            /\ policy.redactPersonalInfo = Some(TRUE)
         THEN Some(ReasonPersonal)
    ELSE IF WalletInvalid(policy) THEN Some(ReasonWallet)
    ELSE Undefined

\* C29: PolicyAgent.negotiateRequest reports the first check that fails, in
\* the order global sharing, category permission, privacy compatibility
\* (bodies before personal info), wallet validity, and no other: the result
\* carries that one reason, it is a denial exactly when a check fails, and it
\* carries a counter-offer exactly when the check is the privacy one.
C29_FirstFailingCheckReported ==
    outcome.op = "negotiateRequest" =>
        /\ Result.reason = FirstFailure(Request, PolicyRead)
        /\ Result.accepted <=> FirstFailure(Request, PolicyRead) = Undefined
        /\ Result.counterOffer # Undefined <=>
              FirstFailure(Request, PolicyRead) \in {Some(ReasonBodies),
                                                     Some(ReasonPersonal)}

\* A request for bodies and personal info under a policy that redacts both
\* and has an invalid wallet is denied for the bodies, with a counter-offer.
C29_Witness ==
    /\ outcome.op = "negotiateRequest"
    /\ SwitchesPass(Request, PolicyRead)
    /\ Request.requestedData.includeBodies
    /\ Request.requestedData.includePersonalInfo
    /\ PolicyRead.redactEmailBodies = Some(TRUE)
    /\ PolicyRead.redactPersonalInfo = Some(TRUE)
    /\ WalletInvalid(PolicyRead)
    /\ ~Result.accepted
    /\ Result.reason = Some(ReasonBodies)
    /\ Result.counterOffer # Undefined

---------------------------------------------------------------------------
(* C30 *)

AcceptedShape(result) ==
    /\ result.accepted
    /\ result.finalPrice # Undefined
    /\ result.adjustedPolicy # Undefined
    /\ result.reason = Undefined
    /\ result.counterOffer = Undefined

DeniedShape(result) ==
    /\ ~result.accepted
    /\ result.reason # Undefined
    /\ result.reason[1] # <<>>
    /\ result.finalPrice = Undefined
    /\ result.adjustedPolicy = Undefined

\* C30: every negotiation result, of PolicyAgent and of the worker, is either
\* accepted with a finalPrice and an adjustedPolicy and no reason or
\* counter-offer, or denied with a non-empty reason and no finalPrice or
\* adjustedPolicy; only the denial of a privacy-incompatible request carries
\* a counter-offer.
C30_ResultHasOneOfTwoShapes ==
    IsNegotiation =>
        /\ AcceptedShape(Result) \/ DeniedShape(Result)
        /\ Result.counterOffer # Undefined =>
              /\ ~Result.accepted
              /\ PrivacyIncompatible(Request, PolicyRead)
              /\ Result.reason \in {Some(ReasonBodies), Some(ReasonPersonal)}

\* A denial of PolicyAgent for personal info, with a counter-offer at a
\* price and no finalPrice.
C30_Witness ==
    /\ outcome.op = "negotiateRequest"
    /\ DeniedShape(Result)
    /\ Result.reason = Some(ReasonPersonal)
    /\ Result.counterOffer # Undefined
    /\ Result.counterOffer[1].price > 0

---------------------------------------------------------------------------
(* C31 *)

\* C31: with no recent request of its category recorded, a request is priced
\* alike by the worker's calculateDynamicPrice and by PolicyAgent's, at the
\* base price of the stored policy.
C31_PricingPathsAgree ==
    (IsNegotiation /\ RequestCount = 0) =>
        WorkerQuote(Request) = AgentQuote(Request)

---------------------------------------------------------------------------
(* C32 *)

\* The records a handler's fetch had to select from: the answer of the mail
\* service, or the mock records when the fetch failed.
FetchedRecords(call) ==
    IF call.fetched[1].ok THEN call.fetched[1].emails
    ELSE getMockEmailData([type   |-> call.request[1].predicate.type,
                           maxAge |-> 365], now)

\* The released record is the redaction, under the policy the handler read,
\* of one of the fetched records.
WentThroughRedaction(record, call) ==
    \E i \in 1..Len(FetchedRecords(call)) :
        RedactedPerField(record, FetchedRecords(call)[i], call.policy[1])

\* C32: a REQUEST_EMAIL_DATA handler fetches only after its permission check
\* has passed: a refused request has fetched nothing and carries no records,
\* a handler that is fetching or has fetched holds a policy that allows its
\* request, and every record of a success response is the redaction of a
\* fetched record.
C32_FetchOnlyAfterPermission ==
    \A caller \in Callers :
        LET call == emailCalls[caller]
        IN  /\ call.response = Some(EmailDataRefused) => call.fetched = Undefined
            /\ (call.pc = "fetchEmailData" \/ call.fetched # Undefined) =>
                  /\ call.policy # Undefined
                  /\ isRequestAllowed(call.request[1], call.policy[1]) = Some(TRUE)
            /\ (call.response # Undefined /\ call.response[1].data # Undefined) =>
                  /\ call.fetched # Undefined
                  /\ \A i \in 1..Len(call.response[1].data[1]) :
                        WentThroughRedaction(call.response[1].data[1][i], call)

\* A purchase request was refused under the strict policy without a fetch,
\* and the open policy, which would allow it, has been stored since.
C32_Witness ==
    /\ emailCalls[DataGuardAPI].pc = "done"
    /\ emailCalls[DataGuardAPI].request[1].predicate.type = "purchase"
    /\ emailCalls[DataGuardAPI].policy = Some(RacePolicyStrict)
    /\ emailCalls[DataGuardAPI].response = Some(EmailDataRefused)
    /\ emailCalls[DataGuardAPI].fetched = Undefined
    /\ userPolicy = Some(RacePolicyOpen)

---------------------------------------------------------------------------
(* Payment requests *)

\* X402PaymentService.getPriceForPredicate: pricing?.<type> || 0
getPriceForPredicate(predicateType, policy) ==
    IF predicateType \in PredicateTypes
    THEN PriceOr(policy.pricing, predicateType, 0)
    ELSE 0

\* X402PaymentService.createPaymentRequest: the request, or the error thrown
\* for a price that is not positive.
createPaymentRequest(predicateType, policy, requestId) ==
    LET price == getPriceForPredicate(predicateType, policy)
    IN  IF price <= 0
        THEN [error          |-> Some(<<"No price set for predicate type: ",
                                        predicateType>>),
              paymentRequest |-> Undefined]
        ELSE [error          |-> Undefined,
              paymentRequest |->
                  Some([predicateType |-> predicateType,
                        price         |-> price,
                        walletAddress |-> IF policy.walletAddress = Undefined
                                          THEN <<>> ELSE policy.walletAddress[1],
                        requestId     |-> requestId])]

\* PolicyAgent.generatePaymentRequest: createPaymentRequest under the policy
\* with the price of the category replaced by finalPrice.
generatePaymentRequest(request, policy, finalPrice, t) ==
    LET requestId == <<"req_", request.predicateType, t>>
        pricing   == IF policy.pricing = Undefined
                     THEN [type \in PredicateTypes |-> Undefined]
                     ELSE policy.pricing[1]
        priced    == IF request.predicateType \in PredicateTypes
                     THEN [pricing EXCEPT ![request.predicateType] = Some(finalPrice)]
                     ELSE pricing
    IN  createPaymentRequest(request.predicateType,
                             [policy EXCEPT !.pricing = Some(priced)], requestId)

\* A caller of PolicyAgent negotiates and, when the request is accepted,
\* generates the payment request; the outcome keeps the negotiation result.
PolicyAgentGeneratePayment(requests) ==
    \E request \in requests :
        LET currentPolicy == getUserPolicy(userPolicy)
            negotiated    == negotiateRequest(request, currentPolicy,
                                              requestHistory, now)
        IN  /\ negotiated.accepted
            /\ outcome' =
                  [op         |-> "generatePaymentRequest",
                   request    |-> Some(request),
                   result     |-> Some(generatePaymentRequest(
                                         request, currentPolicy,
                                         negotiated.finalPrice[1], now)),
                   negotiated |-> Some(negotiated)]
            /\ UNCHANGED <<userPolicy, requestHistory, now, asyncVars>>

---------------------------------------------------------------------------
(* SpecSettle: from an accepted negotiation to a payment.  The policies     *)
(* price every category alike, at the popup's prices, at 0.001, at -0.05 or *)
(* not at all; PROCESS_PAYMENT messages carry a price of 0.10, of 0 or of   *)
(* -0.05, and the store may reject a read or a write.                       *)

SettlePolicyInputs ==
    {Policy(Some(TRUE), PredicateTypes, Some(FALSE), Some(FALSE), pricing,
            Some(90), Some(50), Some(WalletValid), Some(TRUE), Some(TRUE)) :
        pricing \in {Undefined, PopupPricing,
                     Pricing(Some(1), Some(1), Some(1), Some(1)),
                     Pricing(Some(-50), Some(-50), Some(-50), Some(-50))}}

SettleRequestInputs ==
    {NegotiationRequest("subscription", 30, maxEmails, bodies, FALSE, InitialNow) :
        maxEmails \in {10, 60}, bodies \in BOOLEAN}

SettlePrices == {100, 0, -50}

NextSettle ==
    \/ handleUpdateUserPolicy(SettlePolicyInputs)
    \/ PolicyAgentGeneratePayment(SettleRequestInputs)
    \/ \E p \in 1..MaxPayments : handleProcessPayment(p, SettlePrices)
    \/ \E p \in 1..MaxPayments : storePaymentRecord_get(p)
    \/ \E p \in 1..MaxPayments : storePaymentRecord_set(p)
    \/ \E p \in 1..MaxPayments : storePaymentRecord_throws(p)

SpecSettle == Init /\ [][NextSettle]_vars

---------------------------------------------------------------------------
(* C33 *)

\* The payment request generated for the negotiation completed last: an
\* error for a finalPrice that is not positive, else a request at finalPrice.
GeneratedAtFinalPrice ==
    outcome.op = "generatePaymentRequest" =>
        LET finalPrice == outcome.negotiated[1].finalPrice[1]
        IN  IF finalPrice <= 0
            THEN Result.paymentRequest = Undefined /\ Result.error # Undefined
            ELSE /\ Result.error = Undefined
                 /\ Result.paymentRequest # Undefined
                 /\ Result.paymentRequest[1].price = finalPrice

\* C33: no payment request with a price <= 0 is created or processed: the
\* request generated for an accepted negotiation carries the finalPrice, or
\* is an error when that is not positive, and every payment that is being
\* processed or is recorded has a positive price.
C33_NoPaymentAtNonPositivePrice ==
    /\ GeneratedAtFinalPrice
    /\ \A p \in DOMAIN payments :
          payments[p].pc # "idle" => payments[p].price[1] > 0
    /\ \A i \in DOMAIN paymentHistory : paymentHistory[i].amount > 0

---------------------------------------------------------------------------
(* SpecListener: the message listener.  Messages of every type arrive, one  *)
(* of an unknown type among them; an email-data, a negotiation and a        *)
(* payment handler run step by step while policies are stored, and a        *)
(* storage read or write may reject.                                        *)

ProofRequestInputs ==
    {[predicate |-> [type |-> "delivery", maxAge |-> 30], emailData |-> emailData] :
        emailData \in {Undefined, Some(<<>>), Some(ServiceEmails)}}

NextListener ==
    \/ handleUpdateUserPolicy(RacePolicyInputs)
    \/ handleGetUserPolicy
    \/ handleProofGeneration(ProofRequestInputs)
    \/ handleVerifyPayment
    \/ unknownMessage
    \/ requestEmailData(RaceEmailInputs)
    \/ handleEmailDataRequest_getUserPolicy(DataGuardAPI)
    \/ handleEmailDataRequest_fetchEmailData(DataGuardAPI, FetchInputs)
    \/ handleEmailDataRequest_throws(DataGuardAPI)
    \/ handleNegotiateRequest_start(RaceRequestInputs)
    \/ handleNegotiateRequest_getUserPolicy
    \/ handleNegotiateRequest_sendResponse
    \/ handleNegotiateRequest_throws
    \/ handleProcessPayment(1, {100})
    \/ storePaymentRecord_get(1)
    \/ storePaymentRecord_set(1)
    \/ storePaymentRecord_throws(1)

SpecListener == Init /\ [][NextListener]_vars

---------------------------------------------------------------------------
(* C34 *)

\* A handler has answered exactly when it has finished, and the answer it
\* has sent stays the answer.
AnswersOnce(before, after) ==
    /\ after.pc = "done" <=> after.response # Undefined
    /\ before.response # Undefined => after.response = before.response

\* C34: every message gets exactly one response: a handler that runs in
\* steps has answered exactly when it has finished, on the success, the
\* refusal and the caught-error path, and never answers again; a handler
\* that runs in one step leaves its response; and a message of unknown type
\* is answered with 'Unknown message type' and changes nothing stored.
C34_OneResponsePerMessage ==
    [][/\ \A caller \in Callers : AnswersOnce(emailCalls[caller], emailCalls'[caller])
       /\ AnswersOnce(negotiateCall, negotiateCall')
       /\ \A p \in DOMAIN payments : AnswersOnce(payments[p], payments'[p])
       /\ outcome'.op \in {"UPDATE_USER_POLICY", "GET_USER_POLICY", "GENERATE_PROOF",
                          "VERIFY_PAYMENT", "unknown"}
             => outcome'.result # Undefined
       /\ (outcome'.op = "unknown" /\ outcome.op # "unknown") =>
             /\ outcome'.result = Some([error |-> "Unknown message type"])
             /\ UNCHANGED <<userPolicy, requestHistory, recentRequests,
                            paymentHistory, installation>>]_vars

\* The three handlers have answered, one with its refusal, one with the
\* error it caught and one with success, and a message of unknown type was
\* answered last.
C34_Witness ==
    /\ emailCalls[DataGuardAPI].response = Some(EmailDataRefused)
    /\ negotiateCall.pc = "done"
    /\ negotiateCall.response = Some([success |-> FALSE, error |-> "Negotiation failed"])
    /\ payments[1].pc = "done"
    /\ payments[1].response[1].success
    /\ outcome.op = "unknown"

---------------------------------------------------------------------------
(* C35 *)

\* Payment p sends its response in this step.
Responds(p) == payments[p].response = Undefined /\ payments'[p].response # Undefined

Newly(p) == payments'[p].response[1]

\* C35: a payment's record is written exactly when the payment succeeds, and
\* no later than its success response: when a handler answers success,
\* paymentHistory ends with its record; when it answers failure,
\* paymentHistory is as it was; and paymentHistory changes in no step but
\* that of a handler answering success.
C35_RecordStoredWithSuccess ==
    [][/\ \A p \in DOMAIN payments :
             Responds(p) =>
                 IF Newly(p).success
                 THEN /\ paymentHistory' # <<>>
                      /\ paymentHistory'[Len(paymentHistory')] = PaymentRecord(p)
                 ELSE paymentHistory' = paymentHistory
       /\ paymentHistory' # paymentHistory =>
             \E p \in DOMAIN payments : Responds(p) /\ Newly(p).success]_vars

\* One payment was answered with success and its record is stored; the
\* other met a rejected write, was answered with failure, and has no record.
C35_Witness ==
    /\ payments[1].pc = "done"
    /\ payments[1].response[1].success
    /\ \E i \in DOMAIN paymentHistory : paymentHistory[i].requestId = 1
    /\ payments[2].pc = "done"
    /\ payments[2].read # Undefined
    /\ ~payments[2].response[1].success
    /\ \A i \in DOMAIN paymentHistory : paymentHistory[i].requestId # 2

---------------------------------------------------------------------------
(* The content script: window.fetch, from its arguments *)

\* A URL is a text; an absolute one begins with its scheme.
Schemes == {"http://", "https://"}

\* new URL(url) throws on a URL without a scheme.
parsesAsURL(url) == url # <<>> /\ url[1] \in Schemes

\* new URL(url).searchParams.get('type'): the piece after "?type=", or null.
searchParams_get_type(url) ==
    IF \E i \in 1..(Len(url) - 1) : url[i] = "?type="
    THEN Some(url[(CHOOSE i \in 1..(Len(url) - 1) : url[i] = "?type=") + 1])
    ELSE Undefined

\* init?.body ? init.body.toString().toLowerCase() : ''
bodyText(init) ==
    IF init # Undefined /\ init[1].body # Undefined
    THEN toLowerCase(init[1].body[1])
    ELSE <<>>

emailKeywords ==
    {"email", "inbox", "mail", "subscription", "delivery", "purchase",
     "receipt", "order", "newsletter"}

isEmailDataRequest(url, init) ==
    \/ includes(url, "localhost:3000") /\ includes(url, "/api/emails")
    \/ \E keyword \in emailKeywords :
          includes(toLowerCase(url), keyword) \/ includes(bodyText(init), keyword)

extractPredicateFromRequest(url, init) ==
    LET urlLower  == toLowerCase(url)
        typeParam == searchParams_get_type(url)
    IN  IF typeParam # Undefined
        THEN CASE typeParam[1] = "delivery" -> [type |-> "delivery", maxAge |-> 30]
               [] typeParam[1] = "purchase" -> [type |-> "purchase", maxAge |-> 30]
               [] OTHER -> [type |-> "subscription", maxAge |-> 90]
        ELSE IF includes(urlLower, "subscription") \/ includes(bodyText(init), "subscription")
             THEN [type |-> "subscription", maxAge |-> 90]
             ELSE IF includes(urlLower, "delivery") \/ includes(bodyText(init), "delivery")
                  THEN [type |-> "delivery", maxAge |-> 30]
                  ELSE IF includes(urlLower, "purchase") \/ includes(bodyText(init), "purchase")
                       THEN [type |-> "purchase", maxAge |-> 30]
                       ELSE [type |-> "subscription", maxAge |-> 90]

\* Every fetch is queued and prompted for, whatever its URL.
windowFetch_promptsAll(f, calls) ==
    /\ intercepts[f].pc = "idle"
    /\ \E call \in calls :
          IF parsesAsURL(call.url)
          THEN /\ intercepts' =
                     [intercepts EXCEPT
                        ![f] = [IdleIntercept EXCEPT
                                  !.pc = "prompt",
                                  !.call = Some(call),
                                  !.request =
                                      Some([predicate |->
                                              extractPredicateFromRequest(call.url,
                                                                          call.init)]),
                                  !.queued = TRUE]]
               /\ notification' = f
          ELSE /\ intercepts' =
                     [intercepts EXCEPT
                        ![f] = [IdleIntercept EXCEPT !.pc = "rejected",
                                                     !.call = Some(call)]]
               /\ UNCHANGED notification
    /\ UNCHANGED <<userPolicy, requestHistory, now, outcome, emailCalls,
                   negotiateCall, recentRequests, payments, paymentHistory,
                   installation>>

\* window.fetch(input, init) as the content script replaced it.  An
\* email-data request is queued and prompted for (extractPredicateFromRequest
\* throws on a URL that new URL rejects, and the call rejects with nothing
\* queued); any other request goes to the original fetch with the same
\* arguments.
windowFetch(f, calls) ==
    /\ intercepts[f].pc = "idle"
    /\ \E call \in calls :
          IF isEmailDataRequest(call.url, call.init)
          THEN IF parsesAsURL(call.url)
               THEN /\ intercepts' =
                          [intercepts EXCEPT
                             ![f] = [IdleIntercept EXCEPT
                                       !.pc = "prompt",
                                       !.call = Some(call),
                                       !.request =
                                           Some([predicate |->
                                                   extractPredicateFromRequest(call.url,
                                                                               call.init)]),
                                       !.queued = TRUE]]
                    /\ notification' = f
               ELSE /\ intercepts' =
                          [intercepts EXCEPT
                             ![f] = [IdleIntercept EXCEPT !.pc = "rejected",
                                                          !.call = Some(call)]]
                    /\ UNCHANGED notification
          ELSE /\ intercepts' =
                     [intercepts EXCEPT
                        ![f] = [IdleIntercept EXCEPT !.pc = "originalFetch",
                                                     !.call = Some(call),
                                                     !.forwarded = Some(call)]]
               /\ UNCHANGED notification
    /\ UNCHANGED <<userPolicy, requestHistory, now, outcome, emailCalls,
                   negotiateCall, recentRequests, payments, paymentHistory,
                   installation>>

---------------------------------------------------------------------------
(* SpecPage: the page calls window.fetch MaxFetches times with URLs and     *)
(* bodies of both kinds; the user approves, denies or lets the prompt time  *)
(* out; the worker serves the approved requests under the default policy.   *)

PageCalls ==
    {[url |-> <<"http://", "localhost:3000", "/api/emails">>, init |-> Undefined],
     [url |-> <<"http://", "localhost:3000", "/api/emails", "?type=", "purchase">>,
      init |-> Undefined],
     [url |-> <<"https://", "news.example/", "Newsletter">>, init |-> Undefined],
     [url |-> <<"https://", "api.example/search">>,
      init |-> Some([body |-> Some(<<"find ", "receipt">>)])],
     [url |-> <<"/", "inbox">>, init |-> Undefined],
     [url |-> <<"https://", "cdn.example/app.js">>, init |-> Undefined],
     [url |-> <<"https://", "api.example/items", "?type=", "unread">>,
      init |-> Some([body |-> Undefined])],
     [url |-> <<"/", "static/logo.png">>, init |-> Undefined]}

NextPage ==
    \/ \E f \in Fetches : windowFetch(f, PageCalls)
    \/ \E f \in Fetches : approveClick(f)
    \/ \E f \in Fetches : denyClick(f)
    \/ \E f \in Fetches : autoDeny(f)
    \/ \E f \in Fetches : interceptedFetch_response(f)
    \/ \E f \in Fetches : storeRequest_get(f)
    \/ \E f \in Fetches : storeRequest_set(f)
    \/ \E caller \in Fetches : handleEmailDataRequest_getUserPolicy(caller)
    \/ \E caller \in Fetches :
          handleEmailDataRequest_fetchEmailData(caller, InterceptFetchInputs)

SpecPage == Init /\ [][NextPage]_vars

---------------------------------------------------------------------------
(* C36 *)

\* C36: a fetch the content script classified as an email-data request is
\* never handed to the original fetch, whatever the user decided; a fetch it
\* did not classify so is handed to the original fetch with the arguments
\* it came with, and leaves no prompt, no queue entry, no message to the
\* worker and no log entry.
C36_InterceptedNeverForwarded ==
    \A f \in Fetches :
        intercepts[f].call # Undefined =>
            IF isEmailDataRequest(intercepts[f].call[1].url, intercepts[f].call[1].init)
            THEN intercepts[f].forwarded = Undefined
            ELSE /\ intercepts[f].forwarded = intercepts[f].call
                 /\ ~intercepts[f].queued
                 /\ notification # f
                 /\ intercepts[f].resolvedBy = Undefined
                 /\ emailCalls[f].pc = "idle"
                 /\ \A i \in DOMAIN recentRequests : recentRequests[i].fetch # f

\* An email-data fetch was approved, answered by the worker and logged
\* without reaching the original fetch; another fetch was not classified as
\* one and went to the original fetch.
C36_Witness ==
    /\ intercepts[1].queued
    /\ intercepts[1].resolvedBy = Some("approve")
    /\ intercepts[1].pc = "returned"
    /\ intercepts[1].store = "done"
    /\ intercepts[1].forwarded = Undefined
    /\ intercepts[2].pc = "originalFetch"
    /\ intercepts[2].forwarded = intercepts[2].call

---------------------------------------------------------------------------
(* C37 *)

\* C37: while the stored policy is the default one, or none is stored, the
\* worker denies every NEGOTIATE_REQUEST for the global switch, whatever the
\* category; it accepts one only under a stored policy, other than the
\* default, whose globalDataSharing is true.
C37_DefaultPolicyDeniesAll ==
    outcome.op = "NEGOTIATE_REQUEST" =>
        /\ (userPolicy = Undefined \/ userPolicy = Some(getDefaultPolicy)) =>
              /\ Result.accepted = FALSE
              /\ Result.reason = Some(ReasonGlobal)
        /\ Result.accepted = TRUE =>
              /\ userPolicy # Undefined
              /\ userPolicy # Some(getDefaultPolicy)
              /\ userPolicy[1].globalDataSharing = Some(TRUE)

\* After installation a request for subscriptions, which the default policy
\* allows, was denied for the global switch.
C37_Witness ==
    /\ outcome.op = "NEGOTIATE_REQUEST"
    /\ userPolicy = Some(getDefaultPolicy)
    /\ Request.predicateType = "subscription"
    /\ Result.accepted = FALSE
    /\ Result.reason = Some(ReasonGlobal)

---------------------------------------------------------------------------
(* The onInstalled listener step by step *)

\* The listener runs (at installation and at every update of the
\* extension) and chrome.storage.local.get(['userPolicy']) reads the store.
onInstalled_get ==
    /\ installation.pc \in {"idle", "done"}
    /\ installation' = [pc |-> "then", read |-> Some(userPolicy)]
    /\ UNCHANGED <<userPolicy, requestHistory, now, outcome, emailCalls,
                   negotiateCall, intercepts, notification, recentRequests,
                   payments, paymentHistory>>

\* The then callback: if (!result.userPolicy) set({userPolicy: getDefaultPolicy()}).
onInstalled_then ==
    /\ installation.pc = "then"
    /\ installation' = [installation EXCEPT !.pc = "done"]
    /\ userPolicy' = IF installation.read[1] = Undefined
                     THEN Some(getDefaultPolicy)
                     ELSE userPolicy
    /\ UNCHANGED <<requestHistory, now, outcome, emailCalls, negotiateCall,
                   intercepts, notification, recentRequests, payments,
                   paymentHistory>>

---------------------------------------------------------------------------
(* SpecInstall: the extension is installed and updated while the popup      *)
(* saves policies and reads the stored one.                                 *)

NextInstall ==
    \/ onInstalled_get
    \/ onInstalled_then
    \/ handleUpdateUserPolicy(PolicyInputs)
    \/ handleGetUserPolicy

SpecInstall == Init /\ [][NextInstall]_vars

---------------------------------------------------------------------------
(* C38 *)

\* C38: the install-time initialisation writes the default policy only when
\* no policy is stored: the step in which its callback runs leaves a stored
\* policy as it is, also one that UPDATE_USER_POLICY stored after the
\* initialisation's read was issued.
C38_InstallKeepsSavedPolicy ==
    [][(installation.pc = "then" /\ installation'.pc = "done") =>
           (userPolicy # Undefined => userPolicy' = userPolicy)]_vars

---------------------------------------------------------------------------
(* The popup: savePolicy *)

\* What the form holds: the checkboxes, and the inputs as options (an empty
\* input is undefined).  The three prices the form leaves empty, the
\* request timeout and the facilitator URL are not varied.
FormValues(form) ==
    Policy(Some(form.globalDataSharing), form.allowed, Some(form.redactBodies),
           Some(form.redactPersonalInfo),
           Pricing(form.subscriptionPrice, Undefined, Undefined, Undefined),
           form.maxEmailAge, form.maxEmailsPerRequest, Some(form.walletAddress),
           Undefined, Undefined)

\* parseFloat(value || '0.05'), parseInt(value || '90'): the default stands
\* in for an empty input.
valueOr(value, default) == IF value = Undefined THEN Some(default) ELSE value

\* The policy object with personal info shown whatever the form says.
popupPolicy_showsSender(form) ==
    Policy(Some(form.globalDataSharing), form.allowed, Some(form.redactBodies),
           Some(form.redactPersonalInfo),
           Pricing(valueOr(form.subscriptionPrice, 50), Some(100), Some(250),
                   Some(500)),
           valueOr(form.maxEmailAge, 90), valueOr(form.maxEmailsPerRequest, 10),
           Some(form.walletAddress), Some(TRUE), Some(TRUE))

\* The policy object savePolicy builds from the form.
popupPolicy(form) ==
    Policy(Some(form.globalDataSharing), form.allowed, Some(form.redactBodies),
           Some(form.redactPersonalInfo),
           Pricing(valueOr(form.subscriptionPrice, 50), Some(100), Some(250),
                   Some(500)),
           valueOr(form.maxEmailAge, 90), valueOr(form.maxEmailsPerRequest, 10),
           Some(form.walletAddress), Some(~form.redactPersonalInfo), Some(TRUE))

\* savePolicy(): nothing is sent when validatePolicy finds an error;
\* otherwise UPDATE_USER_POLICY carries the policy and the worker stores it.
savePolicy(forms) ==
    \E form \in forms :
        /\ IF validatePolicy(FormValues(form)) # {}
           THEN /\ outcome' = [op |-> "savePolicy", request |-> Some(form),
                               result |-> Some([success |-> FALSE])]
                /\ UNCHANGED userPolicy
           ELSE /\ outcome' = [op |-> "savePolicy", request |-> Some(form),
                               result |-> Some([success |-> TRUE])]
                /\ userPolicy' = Some(popupPolicy(form))
        /\ UNCHANGED <<requestHistory, now, asyncVars>>

\* popup.js, the popup of five controls: its policy has seven fields and
\* goes to the worker unvalidated; an empty maxEmailAge is parsed to NaN.
legacyPolicy(form) ==
    [field \in DOMAIN getDefaultPolicy |->
        CASE field = "allowSubscriptionProof" -> Some("subscription" \in form.allowed)
          [] field = "allowDeliveryProof"     -> Some("delivery" \in form.allowed)
          [] field = "allowPurchaseProof"     -> Some("purchase" \in form.allowed)
          [] field = "redactEmailBodies"      -> Some(form.redactBodies)
          [] field = "maxEmailAge"            -> form.maxEmailAge
          [] field = "showSenderInfo"         -> Some(TRUE)
          [] field = "showSubjectInfo"        -> Some(TRUE)
          [] OTHER                            -> Undefined]

legacy_savePolicy(forms) ==
    \E form \in forms :
        /\ outcome' = [op |-> "savePolicy", request |-> Some(form),
                       result |-> Some([success |-> TRUE])]
        /\ userPolicy' = Some(legacyPolicy(form))
        /\ UNCHANGED <<requestHistory, now, asyncVars>>

---------------------------------------------------------------------------
(* SpecPopup: the user saves policies through the popup, valid and invalid  *)
(* ones, and email-data requests are served under what is stored.           *)

FormInputs ==
    [globalDataSharing   : BOOLEAN,
     allowed             : {{}, {"subscription", "delivery"}},
     redactBodies        : BOOLEAN,
     redactPersonalInfo  : BOOLEAN,
     subscriptionPrice   : {Undefined, Some(-50)},
     maxEmailAge         : {Undefined, Some(30)},
     maxEmailsPerRequest : {Some(10)},
     walletAddress       : {WalletEmpty, WalletShort}]

NextPopup ==
    \/ OnInstalled
    \/ savePolicy(FormInputs)
    \/ legacy_savePolicy(FormInputs)
    \/ handleEmailDataRequest(EmailRequestInputs, FetchInputs)

SpecPopup == Init /\ [][NextPopup]_vars

---------------------------------------------------------------------------
(* C39 *)

\* C39: a policy saved through the popup has showSenderInfo equal to the
\* negation of redactPersonalInfo and showSubjectInfo true; and when the
\* stored policy is a popup-saved one with redactPersonalInfo true, every
\* record released for an email-data request has the marker as its sender.
C39_PopupPolicyRedactsSender ==
    /\ (outcome.op = "savePolicy" /\ Result.success) =>
          /\ userPolicy # Undefined
          /\ userPolicy[1].showSenderInfo =
                Some(~Truthy(userPolicy[1].redactPersonalInfo))
          /\ userPolicy[1].showSubjectInfo = Some(TRUE)
    /\ (IsRelease /\ Truthy(PolicyRead.redactPersonalInfo)) =>
          \A i \in 1..Len(Released) : Released[i].sender = REDACTED

\* Records were released under a saved policy that redacts personal info,
\* their senders replaced and their subjects kept.
C39_Witness ==
    /\ IsRelease
    /\ userPolicy # Undefined
    /\ PolicyRead.redactPersonalInfo = Some(TRUE)
    /\ PolicyRead.showSenderInfo = Some(FALSE)
    /\ Len(Released) > 0
    /\ Released[1].sender = REDACTED
    /\ Released[1].subject # REDACTED

====
